---- MODULE Spec2Model ----
(***************************************************************************)
(* Model of the snapshot pipeline of yottaes/ssp:                          *)
(*   decompressor (AccountHeader::stream_raw)                              *)
(*     -> raw channel -> parsers (AccountHeader::parse_accounts)           *)
(*     -> accounts channel -> accounts writers                             *)
(*     -> decoded channel  -> decoded writers                              *)
(* with the supervisor (main) that spawns, drops its handles and joins.    *)
(*                                                                         *)
(* Keys (Pubkey, hash) are abstract strings; a payload buffer is its byte  *)
(* length together with the header/data view found at each record offset.  *)
(***************************************************************************)
EXTENDS Integers, Sequences, FiniteSets, Bags, TLC

\* ------------------------------------------------------------------ bounds
\* number of parser threads explored (NUM_PARSERS is 4 in main.rs:45)
NumParsers == 2
\* capacity of the raw channel explored (128 in main.rs:119)
RawCap == 1
\* capacity of the accounts channel explored (128 in main.rs:124)
AcctCap == 1
\* capacity of the decoded channel explored (256 in main.rs:125)
DecodedCap == 1
\* rows per decoded batch explored (8192 in token_program.rs:83)
BATCH_THRESHOLD == 2
\* largest number of records of a buffer handed to parse_accounts alone
MaxHdrs == 2
\* largest number of decode and flush calls made on a decoder alone
MaxCalls == 5
\* largest number of records of a buffer parsed twice, under two filters
MaxPairHdrs == 2
\* largest number of entries of a tar stream handed to stream_raw alone
MaxTarEntries == 2
\* digits before the terminator of a size field handed to parse_octal
MaxDigits == 2

\* ------------------------------------------------------- program constants
NUM_WRITERS == 1
NUM_DECODED_WRITERS == 2
HEADER_SIZE == 136
TAR_BLOCK == 512
MINT_SIZE == 82
TOKEN_ACCOUNT_SIZE == 165

TOKEN_PROGRAM == "TokenProgram"

\* Option<T>: None, or Some(v)
None == [some |-> FALSE, val |-> "-"]
Some(v) == [some |-> TRUE, val |-> v]

\* ------------------------------------------------------------ AccountHeader
AccountHeader(wv, dl, pk, lam, own, hs) ==
    [write_version |-> wv, data_len |-> dl, pubkey |-> pk, lamports |-> lam,
     rent_epoch |-> 0, owner |-> own, executable |-> 0, hash |-> hs]

\* ------------------------------------------------------------------ filters
ResolvedFilters(own, hs, pk, dead) ==
    [owner |-> own, hash |-> hs, pubkey |-> pk, include_dead |-> dead]

\* Option::is_none_or(|x| x == field)
is_none_or(opt, field) == IF opt.some THEN opt.val = field ELSE TRUE

matches_ignores_dead(f, header) ==
    /\ is_none_or(f.owner, header.owner)
    /\ is_none_or(f.hash, header.hash)
    /\ is_none_or(f.pubkey, header.pubkey)

matches_ignores_hash(f, header) ==
    IF ~f.include_dead /\ header.lamports = 0
    THEN FALSE
    ELSE /\ is_none_or(f.owner, header.owner)
         /\ is_none_or(f.pubkey, header.pubkey)

FilterMatches(f, header) ==
    IF ~f.include_dead /\ header.lamports = 0
    THEN FALSE
    ELSE LET owner == is_none_or(f.owner, header.owner)
             hash == is_none_or(f.hash, header.hash)
             pubkey == is_none_or(f.pubkey, header.pubkey)
         IN owner /\ hash /\ pubkey

\* ----------------------------------------------------------------- decoders
\* registration order of main: vec![MintDecoder, TokenAccountDecoder]
\* (indices 0 and 1 in the source, 1 and 2 here)
MINT == 1
TOKEN_ACCOUNT == 2
DecoderIds == <<MINT, TOKEN_ACCOUNT>>

DecoderName(idx) == IF idx = MINT THEN "mints" ELSE "token_accounts"
DecoderOwner(idx) == TOKEN_PROGRAM

MintMatches_wrong_size(owner, data_len) ==
    owner = TOKEN_PROGRAM /\ data_len = TOKEN_ACCOUNT_SIZE

MintMatches(owner, data_len) ==
    owner = TOKEN_PROGRAM /\ data_len = MINT_SIZE

TokenAccountMatches_owner_only(owner, data_len) == owner = TOKEN_PROGRAM

TokenAccountMatches(owner, data_len) ==
    owner = TOKEN_PROGRAM /\ data_len = TOKEN_ACCOUNT_SIZE

DecoderMatches(idx, owner, data_len) ==
    IF idx = MINT THEN MintMatches(owner, data_len)
                  ELSE TokenAccountMatches(owner, data_len)

\* size_of::<Mint>() and size_of::<TokenAccount>(), the packed records the
\* decoders view the data as
RecordSize(idx) == IF idx = MINT THEN MINT_SIZE ELSE TOKEN_ACCOUNT_SIZE

\* bytemuck::from_bytes::<T>(data) on a slice of len bytes: it returns the
\* view when len is size_of::<T>() and panics otherwise (the records are
\* packed, so no alignment is asked of the slice)
from_bytes_ok(len, idx) == len = RecordSize(idx)

\* a decoder: the row counter and the column builders (one row per entry)
NewDecoder == [rows |-> 0, builders |-> <<>>]
NewDecoders == [i \in 1..Len(DecoderIds) |-> NewDecoder]

build_batch_always(dec) ==
    [dec |-> [rows |-> 0, builders |-> <<>>], out |-> Some(dec.builders)]

\* build_batch: None when no row is buffered, else the finished builders
build_batch(dec) ==
    IF dec.rows = 0
    THEN [dec |-> dec, out |-> None]
    ELSE [dec |-> [rows |-> 0, builders |-> <<>>], out |-> Some(dec.builders)]

decode_late(dec, pubkey, data) ==
    LET d1 == [rows |-> dec.rows + 1,
               builders |-> Append(dec.builders, [pubkey |-> pubkey, data |-> data])]
    IN IF d1.rows > BATCH_THRESHOLD
       THEN build_batch(d1)
       ELSE [dec |-> d1, out |-> None]

\* decode: append one row, count it, emit at the threshold
decode(dec, pubkey, data) ==
    LET d1 == [rows |-> dec.rows + 1,
               builders |-> Append(dec.builders, [pubkey |-> pubkey, data |-> data])]
    IN IF d1.rows >= BATCH_THRESHOLD
       THEN build_batch(d1)
       ELSE [dec |-> d1, out |-> None]

flush_nothing(dec) == [dec |-> dec, out |-> None]

flush(dec) == build_batch(dec)

\* decoder_map: owner -> indices of the decoders claiming it, in
\* registration order
decoder_map(owner) == SelectSeq(DecoderIds, LAMBDA i : DecoderOwner(i) = owner)

\* the `for &idx in indices` loop: the decoders invoked for one header
RECURSIVE DispatchFrom(_, _, _)
DispatchFrom(indices, k, header) ==
    IF k > Len(indices) THEN <<>>
    ELSE IF DecoderMatches(indices[k], header.owner, header.data_len)
         THEN <<indices[k]>>
         ELSE DispatchFrom(indices, k + 1, header)

Dispatch_unchecked(header) ==
    LET indices == decoder_map(header.owner)
    IN IF Len(indices) = 0 THEN <<>> ELSE <<indices[1]>>

Dispatch(header) == DispatchFrom(decoder_map(header.owner), 1, header)

\* ------------------------------------------------------------ payload buffer
Align8_none(offset) == offset

\* (offset + 7) & !7
Align8(offset) == ((offset + 7) \div 8) * 8

\* offset of the record after the first n records of recs
RECURSIVE OffsetAfter(_, _)
OffsetAfter(recs, n) ==
    IF n = 0 THEN 0
    ELSE Align8(OffsetAfter(recs, n - 1) + HEADER_SIZE + recs[n].hdr.data_len)

\* the buffer holding the records recs, each followed by its data and
\* padded to the next multiple of 8
MkBuf(recs) ==
    [len |-> OffsetAfter(recs, Len(recs)),
     at |-> [o \in {OffsetAfter(recs, n - 1) : n \in 1..Len(recs)} |->
               LET n == CHOOSE n \in 1..Len(recs) : OffsetAfter(recs, n - 1) = o
               IN recs[n]]]

Rec(header, data) == [hdr |-> header, data |-> data]

\* `if !filters.matches(header) { continue; } batch.push(*header)`
KeepHeader_always(f, header) == TRUE

KeepHeader(f, header) == FilterMatches(f, header)

Invoked_if_kept(f, header) ==
    IF KeepHeader(f, header) THEN Dispatch(header) ELSE <<>>

\* the decoder lookup and dispatch come before the filter check and do not
\* consult it
Invoked(f, header) == Dispatch(header)

NextOffset_data_only(offset, data_len) == Align8(offset + data_len)

\* the offset after one iteration: past the header, past the data, aligned
NextOffset(offset, data_len) == Align8(offset + HEADER_SIZE + data_len)

\* one iteration of the while loop of parse_accounts, from offset: the
\* header view, the data slice (which panics when it runs past the end of
\* the buffer), the aligned offset, the decoder dispatch and the filter
ParseIter(buf, offset, f, decoders) ==
    LET header == buf.at[offset].hdr
        data == buf.at[offset].data
        end == NextOffset(offset, header.data_len)
        panics == offset + HEADER_SIZE + header.data_len > buf.len
        invoked == Invoked(f, header)
        res == IF Len(invoked) = 0 THEN [dec |-> NewDecoder, out |-> None]
               ELSE decode(decoders[invoked[1]], header.pubkey, data)
    IN [panics |-> panics,
        offset |-> end,
        header |-> header,
        invoked |-> invoked,
        decoders |-> IF Len(invoked) = 0 THEN decoders
                     ELSE [decoders EXCEPT ![invoked[1]] = res.dec],
        emitted |-> IF Len(invoked) > 0 /\ res.out.some
                    THEN <<[name |-> DecoderName(invoked[1]), rows |-> res.out.val]>>
                    ELSE <<>>,
        push |-> KeepHeader(f, header)]

LoopCond_strict(buf, offset) == offset + HEADER_SIZE < buf.len

\* `while offset + size_of::<AccountHeader>() <= buf.len()`
LoopCond(buf, offset) == offset + HEADER_SIZE <= buf.len

\* the iterations of the loop from offset that touch no channel (no batch
\* is emitted, nothing panics), taken in one go: the parser state before
\* the next iteration that sends or panics, or at the end of the loop
RECURSIVE SilentIters(_, _, _, _, _)
SilentIters(buf, offset, f, decoders, batch) ==
    IF ~LoopCond(buf, offset)
    THEN [offset |-> offset, decoders |-> decoders, batch |-> batch]
    ELSE CHOOSE st \in
            {IF it.panics \/ it.emitted # <<>>
             THEN [offset |-> offset, decoders |-> decoders, batch |-> batch]
             ELSE SilentIters(buf, it.offset, f, it.decoders,
                              IF it.push THEN Append(batch, it.header) ELSE batch) :
                it \in {ParseIter(buf, offset, f, decoders)}} : TRUE

\* the next decoder of the flush loop, from idx on, whose flush returns a
\* batch (Len(DecoderIds) + 1 when there is none)
RECURSIVE NextFlush(_, _)
NextFlush(decoders, idx) ==
    IF idx > Len(DecoderIds) THEN idx
    ELSE IF flush(decoders[DecoderIds[idx]]).out.some THEN idx
         ELSE NextFlush(decoders, idx + 1)

\* ------------------------------------------------------------- tar stream
\* bytes are the integers 0..255; b"accounts/"
ACCOUNTS_SLASH == <<97, 99, 99, 111, 117, 110, 116, 115, 47>>

\* a u64 as its 8 bytes, most significant first
U64_ZERO == <<0, 0, 0, 0, 0, 0, 0, 0>>

\* n * m + d in u64 arithmetic (d < 256, m <= 256), byte by byte from the
\* least significant, the carry out of the most significant byte lost
MulAddU64(n, m, d) ==
    LET t8 == n[8] * m + d
        t7 == n[7] * m + (t8 \div 256)
        t6 == n[6] * m + (t7 \div 256)
        t5 == n[5] * m + (t6 \div 256)
        t4 == n[4] * m + (t5 \div 256)
        t3 == n[3] * m + (t4 \div 256)
        t2 == n[2] * m + (t3 \div 256)
        t1 == n[1] * m + (t2 \div 256)
    IN <<t1 % 256, t2 % 256, t3 % 256, t4 % 256, t5 % 256, t6 % 256, t7 % 256, t8 % 256>>

\* v as usize, of a value below 2^31 (the sizes of the entries explored)
RECURSIVE AsUsizeFrom(_, _, _)
AsUsizeFrom(v, k, acc) ==
    IF k > Len(v) THEN acc ELSE AsUsizeFrom(v, k + 1, acc * 256 + v[k])

AsUsize(v) == AsUsizeFrom(v, 1, 0)

\* parse_octal, the loop from byte k on: stop at NUL or space, else
\* n * 8 + (b - b'0') with the u8 subtraction wrapping
RECURSIVE OctalFrom(_, _, _)
OctalFrom(bytes, k, n) ==
    IF k > Len(bytes) THEN n
    ELSE IF bytes[k] = 0 \/ bytes[k] = 32 THEN n
         ELSE OctalFrom(bytes, k + 1, MulAddU64(n, 8, (bytes[k] - 48) % 256))

\* the GNU binary form: the fold (acc << 8) | b over bytes[1..], in u64
RECURSIVE BinaryFrom(_, _, _)
BinaryFrom(bytes, k, acc) ==
    IF k > Len(bytes) THEN acc
    ELSE BinaryFrom(bytes, k + 1, MulAddU64(acc, 256, bytes[k]))

\* parse_octal: the u64 it returns
parse_octal(bytes) ==
    IF Len(bytes) > 0 /\ bytes[1] >= 128
    THEN BinaryFrom(bytes, 2, U64_ZERO)
    ELSE OctalFrom(bytes, 1, U64_ZERO)

\* `b - b'0'` underflows (a panic in a build with overflow checks) when a
\* byte below b'0' other than NUL and space is met before the end
RECURSIVE OctalUnderflows(_, _)
OctalUnderflows(bytes, k) ==
    IF k > Len(bytes) THEN FALSE
    ELSE IF bytes[k] = 0 \/ bytes[k] = 32 THEN FALSE
         ELSE bytes[k] < 48 \/ OctalUnderflows(bytes, k + 1)

parse_octal_overflows(bytes) ==
    ~(Len(bytes) > 0 /\ bytes[1] >= 128) /\ OctalUnderflows(bytes, 1)

\* (size + TAR_BLOCK - 1) & !(TAR_BLOCK - 1)
Padded(size) == ((size + TAR_BLOCK - 1) \div TAR_BLOCK) * TAR_BLOCK

\* is_accounts_entry: type flag '0' or NUL, and a window of header[..100]
\* equal to b"accounts/"
is_accounts_entry(header) ==
    IF header[156] # 48 /\ header[156] # 0
    THEN FALSE
    ELSE \E i \in 0..(100 - Len(ACCOUNTS_SLASH)) :
            \A j \in 1..Len(ACCOUNTS_SLASH) : header[i + j - 1] = ACCOUNTS_SLASH[j]

\* a stream is a sequence of segments and its length in bytes; a segment
\* is a header block, the data of an entry, or a run of zero bytes
\* the octal digits of n, most significant first, on width places
RECURSIVE OctalDigits(_, _)
OctalDigits(n, width) ==
    IF width = 0 THEN <<>>
    ELSE Append(OctalDigits(n \div 8, width - 1), 48 + (n % 8))

\* the 12-byte size field of a header: 11 octal digits and a NUL
SizeField(n) == Append(OctalDigits(n, 11), 0)

HdrSeg(id, name, flag, size) ==
    [kind |-> "hdr", id |-> id, name |-> name, flag |-> flag, size |-> size, len |-> TAR_BLOCK]
DataSeg(id, len) ==
    [kind |-> "data", id |-> id, name |-> <<>>, flag |-> 0, size |-> 0, len |-> len]
ZeroSeg(len) ==
    [kind |-> "zero", id |-> 0, name |-> <<>>, flag |-> 0, size |-> 0, len |-> len]

\* byte j of the data of entry id (never zero)
DataByte(id, j) == 1 + ((31 * id + j) % 251)

\* byte i of a header block: name at 0, mode at 100, size at 124, type
\* flag at 156
HdrByte(seg, i) ==
    IF i < Len(seg.name) THEN seg.name[i + 1]
    ELSE IF i \in 100..106 THEN 48
    ELSE IF i \in 124..135 THEN SizeField(seg.size)[i - 123]
    ELSE IF i = 156 THEN seg.flag
    ELSE 0

SegByte(seg, i) ==
    IF seg.kind = "hdr" THEN HdrByte(seg, i)
    ELSE IF seg.kind = "data" THEN DataByte(seg.id, i)
    ELSE 0

RECURSIVE ByteFrom(_, _, _)
ByteFrom(segs, k, pos) ==
    IF pos < segs[k].len THEN SegByte(segs[k], pos)
    ELSE ByteFrom(segs, k + 1, pos - segs[k].len)

\* the byte of the stream at position pos < stream.len
ByteAt(stream, pos) == ByteFrom(stream.segs, 1, pos)

\* decoder.read_exact(&mut header) at pos: header[0..512]
ReadHeader(stream, pos) == [i \in 0..(TAR_BLOCK - 1) |-> ByteAt(stream, pos + i)]

\* decoder.read_exact(&mut buf) at pos, buf.len() = size
ReadBuf(stream, pos, size) == [j \in 1..size |-> ByteAt(stream, pos + j - 1)]

\* header[a..b]
Slice(header, a, b) == [k \in 1..(b - a) |-> header[a + k - 1]]

\* ------------------------------------------------------------------ inputs
Owners == {TOKEN_PROGRAM, "K1"}
Pubkeys == {"K1", "K2"}
Hashes == {"H1", "H2"}
DataLens == {0, MINT_SIZE, TOKEN_ACCOUNT_SIZE}

\* headers handed to parse_accounts alone: the hash is H1 throughout, the
\* filter draws its hash from Hashes
HeaderSet ==
    {AccountHeader(0, dl, pk, lam, own, "H1") :
        dl \in DataLens, pk \in Pubkeys, lam \in {0, 1}, own \in Owners}

FilterSet ==
    {ResolvedFilters(own, hs, pk, dead) :
        own \in {None, Some(TOKEN_PROGRAM)},
        hs \in {None} \cup {Some(h) : h \in Hashes},
        pk \in {None, Some("K1")},
        dead \in BOOLEAN}

\* the record sequences of at most max records
RecSeqs(max) == UNION {[1..n -> {Rec(h, "d") : h \in HeaderSet}] : n \in 0..max}

\* a well-formed buffer, one followed by a fragment shorter than a header,
\* and one cut short by 8 bytes
BufferSet(max) ==
    UNION {{MkBuf(recs),
            [MkBuf(recs) EXCEPT !.len = @ + 8],
            [MkBuf(recs) EXCEPT !.len = IF @ >= 8 THEN @ - 8 ELSE 0]} :
           recs \in RecSeqs(max)}

\* ---------------------------------------------------------------- variables
VARIABLES
    sBuf,        \* parse_accounts alone: buf
    sFilters,    \* filters
    sOffset,     \* offset
    sBatch,      \* batch
    sDecoders,   \* decoders
    sCalls,      \* per header read: the header, the decoders invoked on it and
                 \* whether filters.matches kept it
    sEmitted,    \* items sent on decoded_tx
    sPc          \* "loop", "returned" or "panicked"

sVars == <<sBuf, sFilters, sOffset, sBatch, sDecoders, sCalls, sEmitted, sPc>>

VARIABLES
    archive,       \* the tar entries of the decompressed stream, in order
    filters,       \* the resolved filters shared by the parsers
    mainPc,        \* position of main
    joinIdx,       \* next handle of the join loop main is in
    dStatus,       \* decompressor thread
    dIdx,          \* next archive entry the decompressor reads
    raw,           \* raw channel (Vec<u8> buffers)
    accounts,      \* accounts channel (Vec<AccountHeader> batches)
    decoded,       \* decoded channel ((name, RecordBatch) items)
    pStatus,       \* parser threads
    pBuf,          \* buffer a parser is parsing
    pOffset,       \* its offset in parse_accounts
    pBatch,        \* its batch in parse_accounts
    pDecoders,     \* its decoders
    pFlushIdx,     \* next decoder of its flush loop
    wStatus,       \* accounts writer threads
    wFile,         \* accounts_<i>.parquet
    dwStatus,      \* decoded writer threads
    dwFiles,       \* <name>_<i>.parquet of each decoded writer
    rows_received, \* the rows_received counter
    injected,      \* a failure has been injected
    thrErr,        \* what each thread that ended with an error returned
    mainErr,       \* the error main returned
    reported,      \* main has printed the counters (main.rs:285-295)
    parsed,        \* history: bag of the buffers received by parsers
    acctSent,      \* history: bag of the batches sent on the accounts channel
    decodedSent    \* history: bag of the items sent on the decoded channel

pipeVars == <<archive, filters, mainPc, joinIdx, dStatus, dIdx, raw, accounts,
              decoded, pStatus, pBuf, pOffset, pBatch, pDecoders, pFlushIdx,
              wStatus, wFile, dwStatus, dwFiles, rows_received, injected,
              thrErr, mainErr, reported, parsed, acctSent, decodedSent>>

VARIABLES
    cDec,        \* a decoder alone: its row counter and builders
    cCalls       \* the decode and flush calls made on it, with what each returned

cVars == <<cDec, cCalls>>

VARIABLES
    tFilters,    \* a second run of parse_accounts on sBuf: filters
    tOffset,     \* offset
    tBatch,      \* batch
    tDecoders,   \* decoders
    tEmitted,    \* items sent on decoded_tx
    tPc          \* "loop", "returned" or "panicked"

tVars == <<tFilters, tOffset, tBatch, tDecoders, tEmitted, tPc>>

VARIABLES
    rStream,     \* stream_raw alone: the decompressed stream
    rPos,        \* bytes of the stream read so far
    rSent,       \* the buffers sent on raw_tx
    rLog,        \* per header block read: where, and what was done with it
    rStatus      \* "running", "ok" (Ok(())) or "err"

rVars == <<rStream, rPos, rSent, rLog, rStatus>>

\* the state of the components that are run on their own
VARIABLES
    callArg,     \* a function called on its own: its argument
    callRet      \* what the call returned: <<>> before it, <<result>> after

fVars == <<callArg, callRet>>

aloneVars == <<sVars, cVars, tVars, rVars, fVars>>

vars == <<aloneVars, pipeVars>>

\* ------------------------------------------------------------ the pipeline
Parsers == 1..NumParsers
Writers == 1..NUM_WRITERS
DecodedWriters == 1..NUM_DECODED_WRITERS
TableNames == {DecoderName(DecoderIds[i]) : i \in 1..Len(DecoderIds)}

\* the join handles of main
Threads ==
    {<<"decompress", 1>>} \cup {<<"parser", p>> : p \in Parsers}
        \cup {<<"writer", w>> : w \in Writers}
        \cup {<<"decoded_writer", i>> : i \in DecodedWriters}

Entry(is_accounts, recs) == [accounts |-> is_accounts, buf |-> MkBuf(recs)]

\* an archive with an entry outside accounts/, mints, a token account, a
\* dead account and accounts of another program
Archive1 ==
    <<Entry(FALSE, <<>>),
      Entry(TRUE, <<Rec(AccountHeader(1, MINT_SIZE, "K1", 1, TOKEN_PROGRAM, "H1"), "d1"),
                    Rec(AccountHeader(2, MINT_SIZE, "K2", 0, TOKEN_PROGRAM, "H1"), "d2"),
                    Rec(AccountHeader(3, TOKEN_ACCOUNT_SIZE, "K1", 1, TOKEN_PROGRAM, "H2"), "d3")>>),
      Entry(TRUE, <<Rec(AccountHeader(4, MINT_SIZE, "K2", 1, TOKEN_PROGRAM, "H1"), "d4"),
                    Rec(AccountHeader(5, 0, "K1", 1, "K2", "H1"), "d5")>>),
      Entry(TRUE, <<Rec(AccountHeader(6, MINT_SIZE, "K2", 0, "K1", "H2"), "d6")>>)>>

\* the empty archive: the end-of-archive block only
Archive0 == <<>>

\* three accounts entries of one live account each: two mints and an
\* account of another program
Archive2 ==
    <<Entry(TRUE, <<Rec(AccountHeader(1, MINT_SIZE, "K1", 1, TOKEN_PROGRAM, "H1"), "d1")>>),
      Entry(TRUE, <<Rec(AccountHeader(2, MINT_SIZE, "K2", 1, TOKEN_PROGRAM, "H1"), "d2")>>),
      Entry(TRUE, <<Rec(AccountHeader(3, 0, "K1", 1, "K2", "H2"), "d3")>>)>>

\* two accounts entries of the token program: two mints (one of a dead
\* account) and a token account, then a token account and a mint
Archive3 ==
    <<Entry(TRUE, <<Rec(AccountHeader(1, MINT_SIZE, "K1", 1, TOKEN_PROGRAM, "H1"), "d1"),
                    Rec(AccountHeader(2, MINT_SIZE, "K2", 0, TOKEN_PROGRAM, "H1"), "d2"),
                    Rec(AccountHeader(3, TOKEN_ACCOUNT_SIZE, "K1", 1, TOKEN_PROGRAM, "H2"), "d3")>>),
      Entry(TRUE, <<Rec(AccountHeader(4, TOKEN_ACCOUNT_SIZE, "K2", 1, TOKEN_PROGRAM, "H2"), "d4"),
                    Rec(AccountHeader(5, MINT_SIZE, "K1", 1, TOKEN_PROGRAM, "H2"), "d5")>>)>>

DefaultFilters == ResolvedFilters(None, None, None, FALSE)

PipeFilters ==
    {DefaultFilters,
     ResolvedFilters(None, None, None, TRUE),
     ResolvedFilters(None, None, Some("K1"), FALSE)}

\* a file of the run: whether it was created, the batches written to it,
\* whether its writer was closed, and the calls of File::create and of
\* close made for it
NewFile == [created |-> FALSE, batches |-> <<>>, closed |-> FALSE, opens |-> 0, closes |-> 0]

\* File::create and ArrowWriter::try_new: the file is made anew, empty
FileCreate(file) ==
    [file EXCEPT !.created = TRUE, !.batches = <<>>, !.closed = FALSE, !.opens = @ + 1]

\* writer.close()
FileClose(file) == [file EXCEPT !.closed = TRUE, !.closes = @ + 1]

or_insert_with_always(file) == FileCreate(file)

\* writers.entry(name).or_insert_with(..): the open writer of the table,
\* created when the map holds none
or_insert_with(file) == IF file.created THEN file ELSE FileCreate(file)

\* handles of main: raw_tx is moved into the decompressor thread; raw_rx,
\* tx and decoded_tx are dropped once the parsers are spawned; rx once the
\* accounts writers are spawned; decoded_rx once the decoded writers are
MainHoldsRawTx == mainPc = "spawn_decompress"

MainHoldsParserHandles_kept == TRUE

MainHoldsParserHandles == mainPc \in {"spawn_decompress", "spawn_parsers"}

MainHoldsRx_kept == TRUE

MainHoldsRx == mainPc \in {"spawn_decompress", "spawn_parsers", "spawn_writers"}

MainHoldsDecodedRx_kept == TRUE

MainHoldsDecodedRx ==
    mainPc \in {"spawn_decompress", "spawn_parsers", "spawn_writers",
                "spawn_decoded_writers"}

ParserAlive(p) == pStatus[p] \in {"recv", "parse", "flush"}
WriterAlive(w) == wStatus[w] \in {"start", "loop"}
DecodedWriterAlive(i) == dwStatus[i] = "loop"

RawHasSender == MainHoldsRawTx \/ dStatus = "running"
RawHasReceiver == MainHoldsParserHandles \/ \E p \in Parsers : ParserAlive(p)
AcctHasSender == MainHoldsParserHandles \/ \E p \in Parsers : ParserAlive(p)
AcctHasReceiver == MainHoldsRx \/ \E w \in Writers : WriterAlive(w)
DecodedHasSender == MainHoldsParserHandles \/ \E p \in Parsers : ParserAlive(p)
DecodedHasReceiver == MainHoldsDecodedRx \/ \E i \in DecodedWriters : DecodedWriterAlive(i)

HasRoom_always(ch, cap) == TRUE

\* channel::bounded(cap): send goes through when the channel holds fewer
\* than cap items, and blocks otherwise
HasRoom(ch, cap) == Len(ch) < cap

\* what recv leaves in the channel
RecvRest_peek(ch) == ch

RecvRest(ch) == Tail(ch)

\* rows.fetch_add(batch.len())
RowsAdd_one(rows, batch) == rows + 1

RowsAdd(rows, batch) == rows + Len(batch)

PipeInitWith(a, f) ==
    /\ archive = a
    /\ filters = f
    /\ mainPc = "spawn_decompress"
    /\ joinIdx = 1
    /\ dStatus = "unspawned"
    /\ dIdx = 1
    /\ raw = <<>>
    /\ accounts = <<>>
    /\ decoded = <<>>
    /\ pStatus = [p \in Parsers |-> "unspawned"]
    /\ pBuf = [p \in Parsers |-> MkBuf(<<>>)]
    /\ pOffset = [p \in Parsers |-> 0]
    /\ pBatch = [p \in Parsers |-> <<>>]
    /\ pDecoders = [p \in Parsers |-> NewDecoders]
    /\ pFlushIdx = [p \in Parsers |-> 1]
    /\ wStatus = [w \in Writers |-> "unspawned"]
    /\ wFile = [w \in Writers |-> NewFile]
    /\ dwStatus = [i \in DecodedWriters |-> "unspawned"]
    /\ dwFiles = [i \in DecodedWriters |-> [t \in TableNames |-> NewFile]]
    /\ rows_received = 0
    /\ injected = FALSE
    /\ thrErr = [t \in Threads |-> "none"]
    /\ mainErr = "none"
    /\ reported = FALSE
    /\ parsed = EmptyBag
    /\ acctSent = EmptyBag
    /\ decodedSent = EmptyBag

SIdle ==
    /\ sBuf = MkBuf(<<>>)
    /\ sFilters = DefaultFilters
    /\ sOffset = 0
    /\ sBatch = <<>>
    /\ sDecoders = NewDecoders
    /\ sCalls = <<>>
    /\ sEmitted = <<>>
    /\ sPc = "idle"

CIdle ==
    /\ cDec = NewDecoder
    /\ cCalls = <<>>

FIdle ==
    /\ callArg = <<>>
    /\ callRet = <<>>

RIdle ==
    /\ rStream = [segs |-> <<>>, len |-> 0]
    /\ rPos = 0
    /\ rSent = <<>>
    /\ rLog = <<>>
    /\ rStatus = "idle"

TIdle ==
    /\ tFilters = DefaultFilters
    /\ tOffset = 0
    /\ tBatch = <<>>
    /\ tDecoders = NewDecoders
    /\ tEmitted = <<>>
    /\ tPc = "idle"

Init ==
    /\ \/ \E f \in PipeFilters : PipeInitWith(Archive1, f)
       \/ PipeInitWith(Archive0, DefaultFilters)
    /\ SIdle /\ CIdle /\ FIdle /\ TIdle /\ RIdle

InitFail == PipeInitWith(Archive2, DefaultFilters) /\ SIdle /\ CIdle /\ FIdle /\ TIdle /\ RIdle

\* ---- main
\* main.rs:119-121
MainSpawnDecompress ==
    /\ mainPc = "spawn_decompress"
    /\ mainPc' = "spawn_parsers"
    /\ dStatus' = "running"
    /\ UNCHANGED <<archive, filters, thrErr, mainErr,
                   reported,
                   joinIdx, dIdx, raw, accounts, decoded,
                   pStatus, pBuf, pOffset, pBatch, pDecoders, pFlushIdx,
                   wStatus, wFile, dwStatus, dwFiles, rows_received, injected,
                   parsed, acctSent, decodedSent>>

\* main.rs:135-186: spawn the parsers, drop raw_rx, tx, decoded_tx
MainSpawnParsers ==
    /\ mainPc = "spawn_parsers"
    /\ mainPc' = "spawn_writers"
    /\ pStatus' = [p \in Parsers |-> "recv"]
    /\ UNCHANGED <<archive, filters, thrErr, mainErr,
                   reported,
                   joinIdx, dStatus, dIdx, raw, accounts, decoded,
                   pBuf, pOffset, pBatch, pDecoders, pFlushIdx,
                   wStatus, wFile, dwStatus, dwFiles, rows_received, injected,
                   parsed, acctSent, decodedSent>>

\* main.rs:191-226: spawn the accounts writers, drop rx
MainSpawnWriters ==
    /\ mainPc = "spawn_writers"
    /\ mainPc' = "spawn_decoded_writers"
    /\ wStatus' = [w \in Writers |-> "start"]
    /\ UNCHANGED <<archive, filters, thrErr, mainErr,
                   reported,
                   joinIdx, dStatus, dIdx, raw, accounts, decoded,
                   pStatus, pBuf, pOffset, pBatch, pDecoders, pFlushIdx,
                   wFile, dwStatus, dwFiles, rows_received, injected,
                   parsed, acctSent, decodedSent>>

\* main.rs:228-261: spawn the decoded writers, drop decoded_rx
MainSpawnDecodedWriters ==
    /\ mainPc = "spawn_decoded_writers"
    /\ mainPc' = "join_decompress"
    /\ dwStatus' = [i \in DecodedWriters |-> "loop"]
    /\ UNCHANGED <<archive, filters, thrErr, mainErr,
                   reported,
                   joinIdx, dStatus, dIdx, raw, accounts, decoded,
                   pStatus, pBuf, pOffset, pBatch, pDecoders, pFlushIdx,
                   wStatus, wFile, dwFiles, rows_received, injected,
                   parsed, acctSent, decodedSent>>

\* main.rs:273: decompress.join()?
MainJoinDecompress ==
    /\ mainPc = "join_decompress"
    /\ dStatus \in {"ok", "err"}
    /\ mainPc' = IF dStatus = "ok" THEN "join_parsers" ELSE "done_err"
    /\ mainErr' = IF dStatus = "ok" THEN mainErr ELSE thrErr[<<"decompress", 1>>]
    /\ joinIdx' = 1
    /\ UNCHANGED <<archive, filters, thrErr, reported,
                   dStatus, dIdx, raw, accounts, decoded,
                   pStatus, pBuf, pOffset, pBatch, pDecoders, pFlushIdx,
                   wStatus, wFile, dwStatus, dwFiles, rows_received, injected,
                   parsed, acctSent, decodedSent>>

\* one handle.join()? of a join loop over n handles with statuses st
JoinStep(here, next, n, st, kind) ==
    /\ mainPc = here
    /\ st[joinIdx] \in {"ok", "err"}
    /\ IF st[joinIdx] = "err"
       THEN /\ mainPc' = "done_err" /\ joinIdx' = joinIdx
            /\ mainErr' = thrErr[<<kind, joinIdx>>]
       ELSE /\ IF joinIdx = n
               THEN mainPc' = next /\ joinIdx' = 1
               ELSE mainPc' = here /\ joinIdx' = joinIdx + 1
            /\ UNCHANGED mainErr
    /\ UNCHANGED <<archive, filters, thrErr, reported,
                   dStatus, dIdx, raw, accounts, decoded,
                   pStatus, pBuf, pOffset, pBatch, pDecoders, pFlushIdx,
                   wStatus, wFile, dwStatus, dwFiles, rows_received, injected,
                   parsed, acctSent, decodedSent>>

MainJoinParser_then_decoded ==
    JoinStep("join_parsers", "join_decoded_writers", NumParsers, pStatus, "parser")

\* main.rs:274-276
MainJoinParser == JoinStep("join_parsers", "join_writers", NumParsers, pStatus, "parser")
\* main.rs:277-279
MainJoinWriter == JoinStep("join_writers", "join_decoded_writers", NUM_WRITERS, wStatus, "writer")
\* main.rs:281-283
MainJoinDecodedWriter == JoinStep("join_decoded_writers", "finish", NUM_DECODED_WRITERS, dwStatus,
             "decoded_writer")

\* main.rs:285-295: read and report the counters
MainFinish ==
    /\ mainPc = "finish"
    /\ mainPc' = "done_ok"
    /\ reported' = TRUE
    /\ UNCHANGED <<archive, filters, thrErr, mainErr,
                   joinIdx, dStatus, dIdx, raw, accounts, decoded,
                   pStatus, pBuf, pOffset, pBatch, pDecoders, pFlushIdx,
                   wStatus, wFile, dwStatus, dwFiles, rows_received, injected,
                   parsed, acctSent, decodedSent>>

\* `raw_tx.send(buf)?`, `tx.send(batch)?`: the SendError of a channel whose
\* receivers are all gone is returned by the thread
SendFailed == "err"

\* ---- decompressor: stream_raw
\* one turn of the loop on a tar entry: skip it, or read it and send it
\* (the send blocks while the channel is full and fails when every
\* receiver is gone)
DecompressEntry ==
    /\ dStatus = "running"
    /\ dIdx <= Len(archive)
    /\ LET e == archive[dIdx]
       IN IF ~e.accounts
          THEN dIdx' = dIdx + 1 /\ UNCHANGED <<dStatus, raw, thrErr>>
          ELSE IF ~RawHasReceiver
               THEN /\ dStatus' = SendFailed
                    /\ thrErr' = [thrErr EXCEPT ![<<"decompress", 1>>] = "closed"]
                    /\ UNCHANGED <<dIdx, raw>>
               ELSE /\ HasRoom(raw, RawCap)
                    /\ raw' = Append(raw, e.buf)
                    /\ dIdx' = dIdx + 1
                    /\ UNCHANGED <<dStatus, thrErr>>
    /\ UNCHANGED <<archive, filters, mainErr, reported,
                   mainPc, joinIdx, accounts, decoded,
                   pStatus, pBuf, pOffset, pBatch, pDecoders, pFlushIdx,
                   wStatus, wFile, dwStatus, dwFiles, rows_received, injected,
                   parsed, acctSent, decodedSent>>

\* the zero block or the end of the stream: Ok(())
DecompressEnd ==
    /\ dStatus = "running"
    /\ dIdx > Len(archive)
    /\ dStatus' = "ok"
    /\ UNCHANGED <<archive, filters, thrErr, mainErr,
                   reported,
                   mainPc, joinIdx, dIdx, raw, accounts, decoded,
                   pStatus, pBuf, pOffset, pBatch, pDecoders, pFlushIdx,
                   wStatus, wFile, dwStatus, dwFiles, rows_received, injected,
                   parsed, acctSent, decodedSent>>

\* ---- parser thread (main.rs:144-180)
\* raw_rx.recv(): a buffer, and the iterations of parse_accounts on it up
\* to the first send; or, when the channel is empty and every sender is
\* gone, the end of the loop and the flushes that return nothing
ParserRecv(p) ==
    /\ pStatus[p] = "recv"
    /\ IF raw # <<>>
       THEN \E st \in {SilentIters(Head(raw), 0, filters, pDecoders[p], <<>>)} :
               /\ pBuf' = [pBuf EXCEPT ![p] = Head(raw)]
               /\ raw' = RecvRest(raw)
               /\ pOffset' = [pOffset EXCEPT ![p] = st.offset]
               /\ pBatch' = [pBatch EXCEPT ![p] = st.batch]
               /\ pDecoders' = [pDecoders EXCEPT ![p] = st.decoders]
               /\ pStatus' = [pStatus EXCEPT ![p] = "parse"]
               /\ parsed' = parsed (+) SetToBag({Head(raw)})
               /\ UNCHANGED pFlushIdx
       ELSE /\ ~RawHasSender
            /\ pFlushIdx' = [pFlushIdx EXCEPT ![p] = NextFlush(pDecoders[p], 1)]
            /\ pStatus' = [pStatus EXCEPT ![p] =
                             IF NextFlush(pDecoders[p], 1) > Len(DecoderIds)
                             THEN "ok" ELSE "flush"]
            /\ UNCHANGED <<pBuf, raw, pOffset, pBatch, pDecoders, parsed>>
    /\ UNCHANGED <<archive, filters, thrErr, mainErr,
                   reported,
                   mainPc, joinIdx, dStatus, dIdx, accounts, decoded,
                   wStatus, wFile, dwStatus, dwFiles, rows_received,
                   injected, acctSent, decodedSent>>

\* `let _ = decoded_tx.send(item)` for each item of items (none or one):
\* blocks while the channel is full, the item is lost when every receiver
\* is gone
SendDecoded(items) ==
    IF items = <<>>
    THEN UNCHANGED <<decoded, decodedSent>>
    ELSE IF ~DecodedHasReceiver
         THEN UNCHANGED <<decoded, decodedSent>>
         ELSE /\ HasRoom(decoded, DecodedCap)
              /\ decoded' = decoded \o items
              /\ decodedSent' = decodedSent (+) SetToBag({items[1]})

\* the iteration of the loop of parse_accounts that sends a decoded batch
\* (or panics), and the iterations after it up to the next send
ParserIter(p) ==
    /\ pStatus[p] = "parse"
    /\ LoopCond(pBuf[p], pOffset[p])
    /\ \E it \in {ParseIter(pBuf[p], pOffset[p], filters, pDecoders[p])} :
       \E st \in {SilentIters(pBuf[p], it.offset, filters, it.decoders,
                              IF it.push THEN Append(pBatch[p], it.header) ELSE pBatch[p])} :
          IF it.panics
          THEN /\ pStatus' = [pStatus EXCEPT ![p] = "err"]
               /\ thrErr' = [thrErr EXCEPT ![<<"parser", p>>] = "panic"]
               /\ UNCHANGED <<pOffset, pBatch, pDecoders, decoded, decodedSent>>
          ELSE /\ SendDecoded(it.emitted)
               /\ pOffset' = [pOffset EXCEPT ![p] = st.offset]
               /\ pDecoders' = [pDecoders EXCEPT ![p] = st.decoders]
               /\ pBatch' = [pBatch EXCEPT ![p] = st.batch]
               /\ UNCHANGED <<pStatus, thrErr>>
    /\ UNCHANGED <<archive, filters, mainErr, reported,
                   mainPc, joinIdx, dStatus, dIdx, raw, accounts,
                   pBuf, pFlushIdx, wStatus, wFile, dwStatus, dwFiles,
                   rows_received, injected, parsed, acctSent>>

SendsBatch_always(batch) == TRUE

\* `if !batch.is_empty()`
SendsBatch(batch) == batch # <<>>

\* parse_accounts returns; `if !batch.is_empty() { tx.send(batch)? }`
ParserSendBatch(p) ==
    /\ pStatus[p] = "parse"
    /\ ~LoopCond(pBuf[p], pOffset[p])
    /\ IF ~SendsBatch(pBatch[p])
       THEN /\ pStatus' = [pStatus EXCEPT ![p] = "recv"]
            /\ UNCHANGED <<accounts, acctSent, thrErr>>
       ELSE IF ~AcctHasReceiver
            THEN /\ pStatus' = [pStatus EXCEPT ![p] = SendFailed]
                 /\ thrErr' = [thrErr EXCEPT ![<<"parser", p>>] = "closed"]
                 /\ UNCHANGED <<accounts, acctSent>>
            ELSE /\ HasRoom(accounts, AcctCap)
                 /\ accounts' = Append(accounts, pBatch[p])
                 /\ acctSent' = acctSent (+) SetToBag({pBatch[p]})
                 /\ pStatus' = [pStatus EXCEPT ![p] = "recv"]
                 /\ UNCHANGED thrErr
    /\ UNCHANGED <<archive, filters, mainErr, reported,
                   mainPc, joinIdx, dStatus, dIdx, raw, decoded,
                   pBuf, pOffset, pBatch, pDecoders, pFlushIdx, wStatus, wFile,
                   dwStatus, dwFiles, rows_received, injected, parsed, decodedSent>>

\* a turn of `for dec in decoders.iter_mut()` whose flush returns a batch:
\* send it, and go on to the next such turn or to Ok(())
ParserFlush(p) ==
    /\ pStatus[p] = "flush"
    /\ LET idx == DecoderIds[pFlushIdx[p]]
           fl == flush(pDecoders[p][idx])
           decs == [pDecoders[p] EXCEPT ![idx] = fl.dec]
           nxt == NextFlush(decs, pFlushIdx[p] + 1)
       IN /\ SendDecoded(IF fl.out.some
                         THEN <<[name |-> DecoderName(idx), rows |-> fl.out.val]>>
                         ELSE <<>>)
          /\ pDecoders' = [pDecoders EXCEPT ![p] = decs]
          /\ pFlushIdx' = [pFlushIdx EXCEPT ![p] = nxt]
          /\ pStatus' = [pStatus EXCEPT ![p] =
                           IF nxt > Len(DecoderIds) THEN "ok" ELSE "flush"]
    /\ UNCHANGED <<archive, filters, thrErr, mainErr,
                   reported,
                   mainPc, joinIdx, dStatus, dIdx, raw, accounts,
                   pBuf, pOffset, pBatch, wStatus, wFile, dwStatus, dwFiles,
                   rows_received, injected, parsed, acctSent>>

\* ---- accounts writer thread (main.rs:198-222)
\* File::create and ArrowWriter::try_new
AcctWriterCreate(w) ==
    /\ wStatus[w] = "start"
    /\ wFile' = [wFile EXCEPT ![w] = FileCreate(@)]
    /\ wStatus' = [wStatus EXCEPT ![w] = "loop"]
    /\ UNCHANGED <<archive, filters, thrErr, mainErr,
                   reported,
                   mainPc, joinIdx, dStatus, dIdx, raw, accounts,
                   decoded, pStatus, pBuf, pOffset, pBatch, pDecoders, pFlushIdx,
                   dwStatus, dwFiles, rows_received, injected, parsed, acctSent,
                   decodedSent>>

\* rx.recv(): count and write the batch, or close the file when the
\* channel is empty and every sender is gone
AcctWriterRecv(w) ==
    /\ wStatus[w] = "loop"
    /\ IF accounts # <<>>
       THEN /\ accounts' = RecvRest(accounts)
            /\ rows_received' = RowsAdd(rows_received, Head(accounts))
            /\ wFile' = [wFile EXCEPT ![w].batches =
                            IF Head(accounts) # <<>> THEN Append(@, Head(accounts)) ELSE @]
            /\ UNCHANGED wStatus
       ELSE /\ ~AcctHasSender
            /\ wFile' = [wFile EXCEPT ![w] = FileClose(@)]
            /\ wStatus' = [wStatus EXCEPT ![w] = "ok"]
            /\ UNCHANGED <<accounts, rows_received>>
    /\ UNCHANGED <<archive, filters, thrErr, mainErr,
                   reported,
                   mainPc, joinIdx, dStatus, dIdx, raw,
                   decoded, pStatus, pBuf, pOffset, pBatch, pDecoders, pFlushIdx,
                   dwStatus, dwFiles, injected, parsed, acctSent, decodedSent>>

\* ---- decoded writer thread (main.rs:232-257)
\* decoded_rx.recv(): write the batch to the writer of its table, created
\* on first use, or close every open writer when the channel is empty and
\* every sender is gone
DecodedWriterRecv(i) ==
    /\ dwStatus[i] = "loop"
    /\ IF decoded # <<>>
       THEN /\ decoded' = RecvRest(decoded)
            /\ dwFiles' = [dwFiles EXCEPT ![i][Head(decoded).name] =
                              [or_insert_with(@) EXCEPT
                                  !.batches = Append(@, Head(decoded).rows)]]
            /\ UNCHANGED dwStatus
       ELSE /\ ~DecodedHasSender
            /\ dwFiles' = [dwFiles EXCEPT ![i] =
                              [t \in TableNames |->
                                 IF @[t].created THEN FileClose(@[t])
                                 ELSE @[t]]]
            /\ dwStatus' = [dwStatus EXCEPT ![i] = "ok"]
            /\ UNCHANGED decoded
    /\ UNCHANGED <<archive, filters, thrErr, mainErr,
                   reported,
                   mainPc, joinIdx, dStatus, dIdx, raw, accounts,
                   pStatus, pBuf, pOffset, pBatch, pDecoders, pFlushIdx,
                   wStatus, wFile, rows_received, injected, parsed, acctSent,
                   decodedSent>>

\* ---- a fatal error in one thread (I/O, decode, panic)
FailDecompress ==
    /\ ~injected /\ dStatus = "running"
    /\ dStatus' = "err" /\ injected' = TRUE
    /\ thrErr' = [thrErr EXCEPT ![<<"decompress", 1>>] = "fatal"]
    /\ UNCHANGED <<archive, filters, mainErr, reported,
                   mainPc, joinIdx, dIdx, raw, accounts, decoded,
                   pStatus, pBuf, pOffset, pBatch, pDecoders, pFlushIdx,
                   wStatus, wFile, dwStatus, dwFiles, rows_received,
                   parsed, acctSent, decodedSent>>

FailParser(p) ==
    /\ ~injected /\ ParserAlive(p)
    /\ pStatus' = [pStatus EXCEPT ![p] = "err"] /\ injected' = TRUE
    /\ thrErr' = [thrErr EXCEPT ![<<"parser", p>>] = "fatal"]
    /\ UNCHANGED <<archive, filters, mainErr, reported,
                   mainPc, joinIdx, dStatus, dIdx, raw, accounts,
                   decoded, pBuf, pOffset, pBatch, pDecoders, pFlushIdx,
                   wStatus, wFile, dwStatus, dwFiles, rows_received,
                   parsed, acctSent, decodedSent>>

FailAcctWriter(w) ==
    /\ ~injected /\ WriterAlive(w)
    /\ wStatus' = [wStatus EXCEPT ![w] = "err"] /\ injected' = TRUE
    /\ thrErr' = [thrErr EXCEPT ![<<"writer", w>>] = "fatal"]
    /\ UNCHANGED <<archive, filters, mainErr, reported,
                   mainPc, joinIdx, dStatus, dIdx, raw, accounts,
                   decoded, pStatus, pBuf, pOffset, pBatch, pDecoders, pFlushIdx,
                   wFile, dwStatus, dwFiles, rows_received,
                   parsed, acctSent, decodedSent>>

FailDecodedWriter(i) ==
    /\ ~injected /\ DecodedWriterAlive(i)
    /\ dwStatus' = [dwStatus EXCEPT ![i] = "err"] /\ injected' = TRUE
    /\ thrErr' = [thrErr EXCEPT ![<<"decoded_writer", i>>] = "fatal"]
    /\ UNCHANGED <<archive, filters, mainErr, reported,
                   mainPc, joinIdx, dStatus, dIdx, raw, accounts,
                   decoded, pStatus, pBuf, pOffset, pBatch, pDecoders, pFlushIdx,
                   wStatus, wFile, dwFiles, rows_received,
                   parsed, acctSent, decodedSent>>

MainStep ==
    \/ MainSpawnDecompress \/ MainSpawnParsers \/ MainSpawnWriters
    \/ MainSpawnDecodedWriters \/ MainJoinDecompress \/ MainJoinParser
    \/ MainJoinWriter \/ MainJoinDecodedWriter \/ MainFinish
DecompressStep == DecompressEntry \/ DecompressEnd
ParserStep(p) == ParserRecv(p) \/ ParserIter(p) \/ ParserSendBatch(p) \/ ParserFlush(p)
AcctWriterStep(w) == AcctWriterCreate(w) \/ AcctWriterRecv(w)

PipeNext ==
    \/ MainStep
    \/ DecompressStep
    \/ \E p \in Parsers : ParserStep(p)
    \/ \E w \in Writers : AcctWriterStep(w)
    \/ \E i \in DecodedWriters : DecodedWriterRecv(i)

FailStep ==
    \/ FailDecompress
    \/ \E p \in Parsers : FailParser(p)
    \/ \E w \in Writers : FailAcctWriter(w)
    \/ \E i \in DecodedWriters : FailDecodedWriter(i)

Next == PipeNext /\ UNCHANGED aloneVars
NextFail == (PipeNext \/ FailStep) /\ UNCHANGED aloneVars

\* every thread is an OS thread and keeps running while it can take a step
\* (a step of the pipeline changes pipeVars and nothing else)
Fairness ==
    /\ WF_pipeVars(MainStep)
    /\ WF_pipeVars(DecompressStep)
    /\ \A p \in Parsers : WF_pipeVars(ParserStep(p))
    /\ \A w \in Writers : WF_pipeVars(AcctWriterStep(w))
    /\ \A i \in DecodedWriters : WF_pipeVars(DecodedWriterRecv(i))

\* the error-free run
Spec == Init /\ [][Next]_vars
FairSpec == Spec /\ Fairness
\* the run in which at most one thread fails on its own
SpecFail == InitFail /\ [][NextFail]_vars
FairSpecFail == SpecFail /\ Fairness

\* ------------------------------------------- the decoded writers failing
\* a decoded writer ends with an error: writer.write fails (or File::create
\* panics) on the batch it has just received, or writer.close fails once
\* the channel is empty and every sender is gone; its decoded_rx is dropped
DecodedWriterFails(i) ==
    /\ dwStatus[i] = "loop"
    /\ IF decoded # <<>>
       THEN decoded' = RecvRest(decoded)
       ELSE /\ ~DecodedHasSender
            /\ UNCHANGED decoded
    /\ dwStatus' = [dwStatus EXCEPT ![i] = "err"]
    /\ thrErr' = [thrErr EXCEPT ![<<"decoded_writer", i>>] = "fatal"]
    /\ injected' = TRUE
    /\ UNCHANGED <<archive, filters, mainErr, reported,
                   mainPc, joinIdx, dStatus, dIdx, raw, accounts,
                   pStatus, pBuf, pOffset, pBatch, pDecoders, pFlushIdx,
                   wStatus, wFile, dwFiles, rows_received,
                   parsed, acctSent, decodedSent>>

DInit ==
    /\ PipeInitWith(Archive3, DefaultFilters)
    /\ SIdle /\ CIdle /\ FIdle /\ TIdle /\ RIdle

DNext ==
    (PipeNext \/ \E i \in DecodedWriters : DecodedWriterFails(i)) /\ UNCHANGED aloneVars

\* the run in which any number of decoded writers fail
SpecDecodedFail == DInit /\ [][DNext]_vars
FairSpecDecodedFail == SpecDecodedFail /\ Fairness

\* ------------------------------------------------- parse_accounts on its own
SInit ==
    /\ PipeInitWith(Archive0, DefaultFilters)
    /\ CIdle /\ FIdle /\ TIdle /\ RIdle
    /\ sBuf \in BufferSet(MaxHdrs)
    /\ sFilters \in FilterSet
    /\ sOffset = 0
    /\ sBatch = <<>>
    /\ sDecoders = NewDecoders
    /\ sCalls = <<>>
    /\ sEmitted = <<>>
    /\ sPc = "loop"

\* one iteration of the loop; the slice of the data panics when data_len
\* runs past the end of the buffer
SParseIter ==
    /\ sPc = "loop"
    /\ LoopCond(sBuf, sOffset)
    /\ LET it == ParseIter(sBuf, sOffset, sFilters, sDecoders)
       IN IF it.panics
          THEN /\ sPc' = "panicked"
               /\ UNCHANGED <<sOffset, sBatch, sDecoders, sCalls, sEmitted>>
          ELSE /\ sOffset' = it.offset
               /\ sDecoders' = it.decoders
               /\ sCalls' = Append(sCalls, [header |-> it.header, invoked |-> it.invoked,
                                            kept |-> it.push])
               /\ sEmitted' = sEmitted \o it.emitted
               /\ sBatch' = IF it.push THEN Append(sBatch, it.header) ELSE sBatch
               /\ sPc' = "loop"
    /\ UNCHANGED <<sBuf, sFilters>>

\* the loop condition fails: parse_accounts returns batch
SParseReturn ==
    /\ sPc = "loop"
    /\ ~LoopCond(sBuf, sOffset)
    /\ sPc' = "returned"
    /\ UNCHANGED <<sBuf, sFilters, sOffset, sBatch, sDecoders, sCalls, sEmitted>>

SNext == (SParseIter \/ SParseReturn) /\ UNCHANGED <<cVars, fVars, tVars, rVars, pipeVars>>

SpecParse == SInit /\ [][SNext]_vars

\* ------------------------------------- parse_accounts twice, under two filters
PairHeaders ==
    {AccountHeader(0, dl, pk, lam, own, "H1") :
        dl \in {MINT_SIZE, TOKEN_ACCOUNT_SIZE}, pk \in Pubkeys, lam \in {0, 1},
        own \in Owners}

PairBuffers(max) ==
    {MkBuf(recs) :
        recs \in UNION {[1..n -> {Rec(h, "d") : h \in PairHeaders}] : n \in 0..max}}

PairFilters ==
    {DefaultFilters,
     ResolvedFilters(None, None, None, TRUE),
     ResolvedFilters(Some("K1"), None, None, TRUE),
     ResolvedFilters(None, Some("H2"), Some("K1"), FALSE)}

\* the same buffer and the same decoders for both runs, any two filters
TInit ==
    /\ PipeInitWith(Archive0, DefaultFilters)
    /\ CIdle /\ FIdle /\ RIdle
    /\ sBuf \in PairBuffers(MaxPairHdrs)
    /\ sFilters \in PairFilters
    /\ tFilters \in PairFilters
    /\ sOffset = 0 /\ tOffset = 0
    /\ sBatch = <<>> /\ tBatch = <<>>
    /\ sDecoders = NewDecoders /\ tDecoders = NewDecoders
    /\ sCalls = <<>>
    /\ sEmitted = <<>> /\ tEmitted = <<>>
    /\ sPc = "loop" /\ tPc = "loop"

\* the second run starts when the first is over
TParseIter ==
    /\ sPc # "loop" /\ tPc = "loop"
    /\ LoopCond(sBuf, tOffset)
    /\ LET it == ParseIter(sBuf, tOffset, tFilters, tDecoders)
       IN IF it.panics
          THEN /\ tPc' = "panicked"
               /\ UNCHANGED <<tOffset, tBatch, tDecoders, tEmitted>>
          ELSE /\ tOffset' = it.offset
               /\ tDecoders' = it.decoders
               /\ tEmitted' = tEmitted \o it.emitted
               /\ tBatch' = IF it.push THEN Append(tBatch, it.header) ELSE tBatch
               /\ tPc' = "loop"
    /\ UNCHANGED tFilters

TParseReturn ==
    /\ sPc # "loop" /\ tPc = "loop"
    /\ ~LoopCond(sBuf, tOffset)
    /\ tPc' = "returned"
    /\ UNCHANGED <<tFilters, tOffset, tBatch, tDecoders, tEmitted>>

TNext ==
    \/ (SParseIter \/ SParseReturn) /\ UNCHANGED <<cVars, fVars, tVars, rVars, pipeVars>>
    \/ (TParseIter \/ TParseReturn) /\ UNCHANGED <<cVars, fVars, sVars, rVars, pipeVars>>

SpecParsePair == TInit /\ [][TNext]_vars

\* ------------------------------------------------------ stream_raw on its own
\* b"other/foo", b"snap/"
OTHER_FOO == <<111, 116, 104, 101, 114, 47, 102, 111, 111>>
SNAP_SLASH == <<115, 110, 97, 112, 47>>

TarEntry(name, flag, size) == [name |-> name, flag |-> flag, size |-> size]

\* regular files under accounts/ (type flag '0' and NUL), one nested in
\* another directory, an empty one, a file elsewhere, a directory, a name
\* without the slash, and a name whose first byte is NUL
TarEntryKinds ==
    {TarEntry(ACCOUNTS_SLASH \o <<49>>, 48, 8),
     TarEntry(ACCOUNTS_SLASH \o <<50>>, 0, 520),
     TarEntry(SNAP_SLASH \o ACCOUNTS_SLASH \o <<51>>, 48, 512),
     TarEntry(OTHER_FOO, 48, 520),
     TarEntry(ACCOUNTS_SLASH \o <<53>>, 53, 0),
     TarEntry(SubSeq(ACCOUNTS_SLASH, 1, 8) \o <<54>>, 48, 8),
     TarEntry(<<0>> \o ACCOUNTS_SLASH \o <<55>>, 48, 8),
     TarEntry(ACCOUNTS_SLASH \o <<56>>, 48, 0)}

\* header block, data and zero pad to the next block of each entry
RECURSIVE EntrySegs(_, _)
EntrySegs(entries, k) ==
    IF k > Len(entries) THEN <<>>
    ELSE <<HdrSeg(k, entries[k].name, entries[k].flag, entries[k].size),
           DataSeg(k, entries[k].size),
           ZeroSeg(Padded(entries[k].size) - entries[k].size)>>
            \o EntrySegs(entries, k + 1)

RECURSIVE SegsLen(_)
SegsLen(segs) == IF segs = <<>> THEN 0 ELSE segs[1].len + SegsLen(Tail(segs))

\* the stream of the entries followed by the two zero blocks of the end of
\* archive ("zeros"), by nothing ("eof"), or cut 8 bytes short ("cut")
TarOf(entries, ending) ==
    LET segs == EntrySegs(entries, 1) \o
                  (IF ending = "zeros" THEN <<ZeroSeg(2 * TAR_BLOCK)>> ELSE <<>>)
        len == SegsLen(segs)
    IN [segs |-> segs,
        len |-> IF ending = "cut" /\ len >= 8 THEN len - 8 ELSE len]

TarStreams(max) ==
    {TarOf(es, ending) :
        es \in UNION {[1..n -> TarEntryKinds] : n \in 0..max},
        ending \in {"zeros", "eof", "cut"}}

RInit ==
    /\ PipeInitWith(Archive0, DefaultFilters)
    /\ SIdle /\ CIdle /\ FIdle /\ TIdle
    /\ rStream \in TarStreams(MaxTarEntries)
    /\ rPos = 0
    /\ rSent = <<>>
    /\ rLog = <<>>
    /\ rStatus = "running"

\* a turn of the loop that leaves it: read_exact of the header meets the
\* end of the stream, or header[0] == 0; stream_raw returns Ok(())
StreamRawEnd ==
    /\ rStatus = "running"
    /\ IF rPos + TAR_BLOCK > rStream.len
       THEN /\ rPos' = rStream.len
            /\ rLog' = Append(rLog, [pos |-> rPos, size |-> 0, padded |-> 0,
                                      accounts |-> FALSE, outcome |-> "eof"])
       ELSE /\ ByteAt(rStream, rPos) = 0
            /\ rPos' = rPos + TAR_BLOCK
            /\ rLog' = Append(rLog, [pos |-> rPos, size |-> 0, padded |-> 0,
                                      accounts |-> FALSE, outcome |-> "end"])
    /\ rStatus' = "ok"
    /\ UNCHANGED <<rStream, rSent>>

\* a turn of the loop on an entry: its size and padded size, then either
\* the data read into a buffer, the pad skipped and the buffer sent, or
\* padded bytes skipped; a read past the end of the stream is an error
StreamRawEntry ==
    /\ rStatus = "running"
    /\ rPos + TAR_BLOCK <= rStream.len
    /\ \E header \in {ReadHeader(rStream, rPos)} :
          /\ header[0] # 0
          /\ \E size \in {AsUsize(parse_octal(Slice(header, 124, 136)))} :
             \E panics \in IF parse_octal_overflows(Slice(header, 124, 136))
                           THEN BOOLEAN ELSE {FALSE} :
              LET padded == Padded(size)
                  acc == is_accounts_entry(header)
                  entry == [pos |-> rPos, size |-> size, padded |-> padded,
                            accounts |-> acc, outcome |-> "err"]
              IN IF panics \/ rPos + TAR_BLOCK + padded > rStream.len
                 THEN /\ rStatus' = "err"
                      /\ rPos' = IF panics THEN rPos + TAR_BLOCK ELSE rStream.len
                      /\ rLog' = Append(rLog, entry)
                      /\ UNCHANGED rSent
                 ELSE /\ rPos' = rPos + TAR_BLOCK + padded
                      /\ rSent' = IF acc
                                  THEN Append(rSent, ReadBuf(rStream, rPos + TAR_BLOCK, size))
                                  ELSE rSent
                      /\ rLog' = Append(rLog, [entry EXCEPT !.outcome =
                                                  IF acc THEN "sent" ELSE "skipped"])
                      /\ UNCHANGED rStatus
    /\ UNCHANGED rStream

RNext == (StreamRawEntry \/ StreamRawEnd) /\ UNCHANGED <<sVars, cVars, fVars, tVars, pipeVars>>

SpecTar == RInit /\ [][RNext]_vars

\* ------------------------------------------------------- a decoder on its own
\* any sequence of decode and flush calls on one decoder
Rows == {[pubkey |-> pk, data |-> "d"] : pk \in Pubkeys}

CInit ==
    /\ PipeInitWith(Archive0, DefaultFilters)
    /\ SIdle
    /\ TIdle
    /\ RIdle
    /\ CIdle /\ FIdle

\* dec.decode(pubkey, data)
CDecode ==
    /\ Len(cCalls) < MaxCalls
    /\ \E r \in Rows :
          LET res == decode(cDec, r.pubkey, r.data)
          IN /\ cDec' = res.dec
             /\ cCalls' = Append(cCalls, [op |-> "decode", row |-> r, out |-> res.out,
                                          rows |-> res.dec.rows])

\* dec.flush()
CFlush ==
    /\ Len(cCalls) < MaxCalls
    /\ LET res == flush(cDec)
       IN /\ cDec' = res.dec
          /\ cCalls' = Append(cCalls, [op |-> "flush", row |-> [pubkey |-> "-", data |-> "-"],
                                       out |-> res.out, rows |-> res.dec.rows])

CNext == (CDecode \/ CFlush) /\ UNCHANGED <<sVars, fVars, tVars, rVars, pipeVars>>

SpecDecoder == CInit /\ [][CNext]_vars

\* ------------------------------------------------------ parse_octal on its own
\* the 12-byte size fields handed to parse_octal: a prefix, then the fill
\* byte up to 12 bytes
PadField(prefix, fill) == [i \in 1..12 |-> IF i <= Len(prefix) THEN prefix[i] ELSE fill]

\* the digit strings of at most MaxDigits digits among '0', '1' and '7'
DigitStrings == UNION {[1..n -> {48, 49, 55}] : n \in 0..MaxDigits}

\* octal forms: digits, a NUL or a space, then NULs or the digit '5'; the
\* field of tar itself (11 digits and a NUL); 12 digits and no terminator;
\* and fields with a byte that is no octal digit ('9', '/') before the NUL
OctalFields ==
    {PadField(Append(d, t), f) : d \in DigitStrings, t \in {0, 32}, f \in {0, 53}}
        \cup {SizeField(n) : n \in {0, 8, 100, 511, 512}}
        \cup {PadField(<<>>, 55), PadField(<<49, 57>>, 0), PadField(<<49, 47, 50>>, 0)}

\* binary forms: a first byte with the high bit set, then 11 bytes
BinaryFields ==
    {<<first>> \o high \o <<0, 0, 0, 0, 0>> \o low :
        first \in {128, 255},
        high \in {<<0, 0, 0>>, <<0, 0, 1>>, <<1, 0, 0>>},
        low \in {<<0, 0, 0>>, <<1, 0, 0>>, <<255, 255, 255>>}}

OInit ==
    /\ PipeInitWith(Archive0, DefaultFilters)
    /\ SIdle /\ CIdle /\ TIdle /\ RIdle
    /\ callArg \in OctalFields \cup BinaryFields
    /\ callRet = <<>>

\* parse_octal(callArg): the u64 returned, or the panic of `b - b'0'` in a
\* build with overflow checks
OctalCall ==
    /\ callRet = <<>>
    /\ \E panics \in IF parse_octal_overflows(callArg) THEN BOOLEAN ELSE {FALSE} :
          callRet' = IF panics THEN <<[panics |-> TRUE, value |-> U64_ZERO]>>
                     ELSE <<[panics |-> FALSE, value |-> parse_octal(callArg)]>>
    /\ UNCHANGED callArg

ONext == OctalCall /\ UNCHANGED <<sVars, cVars, tVars, rVars, pipeVars>>

SpecOctal == OInit /\ [][ONext]_vars

\* ----------------------------------------------- build_record_batch on its own
\* db.rs: the row of the accounts table built for each header of a batch
build_record_batch(headers) ==
    [i \in DOMAIN headers |->
        [pubkey |-> headers[i].pubkey,
         lamports |-> headers[i].lamports,
         owner |-> headers[i].owner,
         data_len |-> headers[i].data_len,
         executable |-> (headers[i].executable = 1),
         rent_epoch |-> headers[i].rent_epoch]]

\* a header with the executable byte e
ExecHeader(e) == [AccountHeader(1, 0, "K1", 1, "K2", "H1") EXCEPT !.executable = e]

\* batches of one header with every value of the byte, and of two headers
BatchInputs ==
    {<<ExecHeader(e)>> : e \in 0..255}
        \cup {<<ExecHeader(e1), ExecHeader(e2)>> : e1, e2 \in {0, 1, 2, 255}}

BInit ==
    /\ PipeInitWith(Archive0, DefaultFilters)
    /\ SIdle /\ CIdle /\ TIdle /\ RIdle
    /\ callArg \in BatchInputs
    /\ callRet = <<>>

\* main.rs:215
BuildCall ==
    /\ callRet = <<>>
    /\ callRet' = <<build_record_batch(callArg)>>
    /\ UNCHANGED callArg

BNext == BuildCall /\ UNCHANGED <<sVars, cVars, tVars, rVars, pipeVars>>

SpecBatch == BInit /\ [][BNext]_vars

\* ------------------------------------- the rows of the token program decoders
\* an integer field read from its little-endian bytes (the number as its
\* bytes, most significant first)
FromLE(bytes) == [i \in 1..Len(bytes) |-> bytes[Len(bytes) + 1 - i]]

\* the u32 1
U32_ONE == <<0, 0, 0, 1>>

\* bytes a..b-1 of a record (offsets of the packed struct, from 0)
FieldBytes(data, a, b) == SubSeq(data, a + 1, b)

COptionPubkey_get_always(c) == Some(SubSeq(c, 5, 36))

\* COptionPubkey::get on the 36 bytes of the struct: tag: u32, value: Pubkey
COptionPubkey_get(c) ==
    IF FromLE(SubSeq(c, 1, 4)) = U32_ONE THEN Some(SubSeq(c, 5, 36)) ELSE None

\* COptionU64::get on the 12 bytes of the struct: tag: u32, value: u64
COptionU64_get(c) ==
    IF FromLE(SubSeq(c, 1, 4)) = U32_ONE THEN Some(FromLE(SubSeq(c, 5, 12))) ELSE None

\* MintDecoder::decode: the values appended to the builders for one record
MintRow(pubkey, data) ==
    [pubkey |-> pubkey,
     mint_authority |-> COptionPubkey_get(FieldBytes(data, 0, 36)),
     freeze_authority |-> COptionPubkey_get(FieldBytes(data, 46, 82)),
     supply |-> FromLE(FieldBytes(data, 36, 44)),
     decimals |-> data[45],
     is_initialized |-> (data[46] # 0)]

\* TokenAccountDecoder::decode: the values appended for one record
TokenAccountRow(pubkey, data) ==
    [pubkey |-> pubkey,
     mint |-> FieldBytes(data, 0, 32),
     owner |-> FieldBytes(data, 32, 64),
     amount |-> FromLE(FieldBytes(data, 64, 72)),
     delegate |-> COptionPubkey_get(FieldBytes(data, 72, 108)),
     state |-> data[109],
     is_native |-> COptionU64_get(FieldBytes(data, 109, 121)),
     delegated_amount |-> FromLE(FieldBytes(data, 121, 129)),
     close_authority |-> COptionPubkey_get(FieldBytes(data, 129, 165))]

\* a key of 32 bytes, none of them zero
KeyBytes(b) == [i \in 1..32 |-> 1 + ((b + i) % 255)]

\* the tags explored: 0, 1, 2, 257 and 2^24
Tags == {<<0, 0, 0, 0>>, <<1, 0, 0, 0>>, <<2, 0, 0, 0>>, <<1, 1, 0, 0>>, <<0, 0, 0, 1>>}

MintData(t1, t2) ==
    t1 \o KeyBytes(10) \o <<1, 0, 0, 0, 0, 0, 0, 0>> \o <<0, 1>> \o t2 \o KeyBytes(20)

TokenAccountData(t1, t2, t3) ==
    KeyBytes(30) \o KeyBytes(40) \o <<5, 0, 0, 0, 0, 0, 0, 0>>
        \o t1 \o KeyBytes(50) \o <<1>>
        \o t2 \o <<9, 1, 0, 0, 0, 0, 0, 0>> \o <<0, 0, 0, 0, 0, 0, 0, 0>>
        \o t3 \o KeyBytes(60)

RowInputs ==
    {[table |-> "mints", pubkey |-> "K1", data |-> MintData(t1, t2)] : t1, t2 \in Tags}
        \cup {[table |-> "token_accounts", pubkey |-> "K2",
               data |-> TokenAccountData(t1, t2, t3)] : t1, t2, t3 \in Tags}

WInit ==
    /\ PipeInitWith(Archive0, DefaultFilters)
    /\ SIdle /\ CIdle /\ TIdle /\ RIdle
    /\ callArg \in RowInputs
    /\ callRet = <<>>

MintDecodeCall ==
    /\ callRet = <<>>
    /\ callArg.table = "mints"
    /\ callRet' = <<MintRow(callArg.pubkey, callArg.data)>>
    /\ UNCHANGED callArg

TokenAccountDecodeCall ==
    /\ callRet = <<>>
    /\ callArg.table = "token_accounts"
    /\ callRet' = <<TokenAccountRow(callArg.pubkey, callArg.data)>>
    /\ UNCHANGED callArg

WNext ==
    (MintDecodeCall \/ TokenAccountDecodeCall)
        /\ UNCHANGED <<sVars, cVars, tVars, rVars, pipeVars>>

SpecRow == WInit /\ [][WNext]_vars

\* ------------------------------------------------------------------ helpers
Range(s) == {s[i] : i \in DOMAIN s}

\* the headers lying wholly inside the buffer
HeadersIn(buf) == {buf.at[o].hdr : o \in {x \in DOMAIN buf.at : x + HEADER_SIZE <= buf.len}}

\* sum of the values of the function f over its finite domain
RECURSIVE SumFn(_)
SumFn(f) ==
    IF DOMAIN f = {} THEN 0
    ELSE LET x == CHOOSE x \in DOMAIN f : TRUE
         IN f[x] + SumFn([y \in DOMAIN f \ {x} |-> f[y]])

\* occurrences of x in the sequence s
Occurrences(s, x) == Cardinality({k \in DOMAIN s : s[k] = x})

\* occurrences of x in the sequences of the sequence ss
OccurrencesIn(ss, x) ==
    SumFn([k \in DOMAIN ss |-> Occurrences(ss[k], x)])

\* the records of the accounts entries of the archive, as (entry, offset)
ArchiveRecs ==
    {<<k, o>> : k \in {j \in DOMAIN archive : archive[j].accounts}, o \in 0..700}
        \cap UNION {{<<k, o>> : o \in DOMAIN archive[k].buf.at} : k \in DOMAIN archive}
RecAt(ko) == archive[ko[1]].buf.at[ko[2]]

\* buffers of the accounts entries read so far by the decompressor
RawSent(b) ==
    Cardinality({k \in 1..(dIdx - 1) : archive[k].accounts /\ archive[k].buf = b})
\* buffers of the accounts entries of the whole archive
RawInArchive(b) ==
    Cardinality({k \in DOMAIN archive : archive[k].accounts /\ archive[k].buf = b})

\* rows of header h written to the accounts files
RowsWritten(h) ==
    SumFn([w \in Writers |-> OccurrencesIn(wFile[w].batches, h)])

\* batches equal to b written to the accounts files
BatchesWritten(b) ==
    SumFn([w \in Writers |-> Occurrences(wFile[w].batches, b)])

\* items equal to it written by the decoded writers
ItemsWritten(it) ==
    SumFn([i \in DecodedWriters |-> Occurrences(dwFiles[i][it.name].batches, it.rows)])

\* rows equal to r delivered on the decoded channel under table name t
RowsDelivered(t, r) ==
    SumFn([it \in BagToSet(decodedSent) |->
              IF it.name = t THEN CopiesIn(it, decodedSent) * Occurrences(it.rows, r)
              ELSE 0])

\* rows equal to r written by the decoded writers to the files of table t
RowsInTable(t, r) ==
    SumFn([i \in DecodedWriters |-> OccurrencesIn(dwFiles[i][t].batches, r)])

\* accounts of the archive whose row is r and whose decoder is idx
AccountsFor(idx, r) ==
    Cardinality({ko \in ArchiveRecs :
                    /\ Dispatch(RecAt(ko).hdr) = <<idx>>
                    /\ [pubkey |-> RecAt(ko).hdr.pubkey, data |-> RecAt(ko).data] = r})

AllRows == {[pubkey |-> RecAt(ko).hdr.pubkey, data |-> RecAt(ko).data] : ko \in ArchiveRecs}
AllHeaders == {RecAt(ko).hdr : ko \in ArchiveRecs}
HeadersInArchive(h) == Cardinality({ko \in ArchiveRecs : RecAt(ko).hdr = h})

\* the entries of a stream as built: their header segments, where each
\* starts, whether the stream holds the whole entry, whether it is a regular
\* file with accounts/ in its name, and its data
HdrSegs(stream) == {k \in DOMAIN stream.segs : stream.segs[k].kind = "hdr"}
SegPos(stream, k) == SegsLen(SubSeq(stream.segs, 1, k - 1))
EntryComplete(stream, k) ==
    SegPos(stream, k) + TAR_BLOCK + Padded(stream.segs[k].size) <= stream.len
EntryMatches(seg) ==
    /\ seg.flag \in {48, 0}
    /\ \E i \in 1..(Len(seg.name) - Len(ACCOUNTS_SLASH) + 1) :
          SubSeq(seg.name, i, i + Len(ACCOUNTS_SLASH) - 1) = ACCOUNTS_SLASH
EntryData(seg) == [j \in 1..seg.size |-> DataByte(seg.id, j - 1)]

\* the data of the matching entries of the stream, from segment k on
RECURSIVE MatchingData(_, _)
MatchingData(stream, k) ==
    IF k > Len(stream.segs) THEN <<>>
    ELSE IF k \in HdrSegs(stream) /\ EntryComplete(stream, k)
            /\ EntryMatches(stream.segs[k])
         THEN <<EntryData(stream.segs[k])>> \o MatchingData(stream, k + 1)
         ELSE MatchingData(stream, k + 1)

\* where the reader stood after the turn n of its loop
PosAfter(n) == IF n < Len(rLog) THEN rLog[n + 1].pos ELSE rPos

\* the buffers sent up to and including turn n
SentUpTo(n) == Cardinality({m \in 1..n : rLog[m].outcome = "sent"})

\* the header segment of the stream that starts at pos (0 when none does)
SegAtPos(stream, pos) ==
    IF \E k \in HdrSegs(stream) : SegPos(stream, k) = pos
    THEN CHOOSE k \in HdrSegs(stream) : SegPos(stream, k) = pos
    ELSE 0

AllThreadsOk ==
    /\ dStatus = "ok"
    /\ \A p \in Parsers : pStatus[p] = "ok"
    /\ \A w \in Writers : wStatus[w] = "ok"
    /\ \A i \in DecodedWriters : dwStatus[i] = "ok"

\* the handles in the order main joins them, and the state of each thread
JoinOrder ==
    <<<<"decompress", 1>>>> \o [p \in Parsers |-> <<"parser", p>>]
        \o [w \in Writers |-> <<"writer", w>>]
        \o [i \in DecodedWriters |-> <<"decoded_writer", i>>]

ThreadStatus(t) ==
    IF t[1] = "decompress" THEN dStatus
    ELSE IF t[1] = "parser" THEN pStatus[t[2]]
    ELSE IF t[1] = "writer" THEN wStatus[t[2]]
    ELSE dwStatus[t[2]]

AllThreadsEnded ==
    /\ dStatus \in {"ok", "err"}
    /\ \A p \in Parsers : pStatus[p] \in {"ok", "err"}
    /\ \A w \in Writers : wStatus[w] \in {"ok", "err"}
    /\ \A i \in DecodedWriters : dwStatus[i] \in {"ok", "err"}

\* ------------------------------------------------------------------- claims
\* C1: an error-free run over a finite archive always shuts down: every
\* thread exits with success, the channels are drained, the files are
\* finalized and every join of main completes; parsers leave their loop
\* only once the decompressor has returned and the raw channel is empty,
\* writers only once every parser has exited and their channel is empty.
C1_AllExited ==
    /\ AllThreadsOk
    /\ mainPc = "done_ok"
    /\ raw = <<>> /\ accounts = <<>> /\ decoded = <<>>
    /\ \A w \in Writers : wFile[w].closed
    /\ \A i \in DecodedWriters, t \in TableNames :
          dwFiles[i][t].created => dwFiles[i][t].closed

C1_Order ==
    /\ \A p \in Parsers : pStatus[p] \in {"flush", "ok"} => dStatus = "ok" /\ raw = <<>>
    /\ \A w \in Writers : wStatus[w] = "ok" =>
          accounts = <<>> /\ \A p \in Parsers : pStatus[p] = "ok"
    /\ \A i \in DecodedWriters : dwStatus[i] = "ok" =>
          decoded = <<>> /\ \A p \in Parsers : pStatus[p] = "ok"

C1_Shutdown == <>C1_AllExited /\ []C1_Order

C1_Witness ==
    /\ C1_AllExited
    /\ archive # <<>>
    /\ \E w \in Writers : wFile[w].batches # <<>>
    /\ \E i \in DecodedWriters, t \in TableNames : dwFiles[i][t].batches # <<>>

\* C2: when one thread stops with an error at any point, every other thread
\* still terminates and the join sequence of main returns an error.
C2_FailFast == injected ~> (AllThreadsEnded /\ mainPc = "done_err")

C2_Witness ==
    /\ injected
    /\ AllThreadsEnded
    /\ mainPc = "done_err"
    /\ \E w \in Writers : wStatus[w] = "err"
    /\ \E p \in Parsers : pStatus[p] = "err"
    /\ dStatus = "err"

\* C3: every item of a channel has exactly one recipient: a buffer sent on
\* the raw channel is in the channel or has been received by a parser once,
\* never twice, and all have been parsed when the parsers have exited; the
\* same for the batches of the accounts and decoded channels and the
\* writers.
C3_ExactlyOnce ==
    /\ \A k \in DOMAIN archive :
          LET b == archive[k].buf
          IN /\ archive[k].accounts =>
                   RawSent(b) = CopiesIn(b, parsed) + Occurrences(raw, b)
             /\ (archive[k].accounts /\ \A p \in Parsers : pStatus[p] = "ok") =>
                   CopiesIn(b, parsed) = RawInArchive(b)
    /\ \A b \in BagToSet(parsed) : RawInArchive(b) > 0
    /\ \A b \in BagToSet(acctSent) :
          /\ CopiesIn(b, acctSent) = BatchesWritten(b) + Occurrences(accounts, b)
          /\ (\A w \in Writers : wStatus[w] = "ok") => CopiesIn(b, acctSent) = BatchesWritten(b)
    /\ \A it \in BagToSet(decodedSent) :
          /\ CopiesIn(it, decodedSent) = ItemsWritten(it) + Occurrences(decoded, it)
          /\ (\A i \in DecodedWriters : dwStatus[i] = "ok") =>
                CopiesIn(it, decodedSent) = ItemsWritten(it)
    /\ \A w \in Writers : \A k \in DOMAIN wFile[w].batches :
          CopiesIn(wFile[w].batches[k], acctSent) > 0

C3_Witness ==
    /\ AllThreadsOk
    /\ \E p \in Parsers : pStatus[p] = "ok"
    /\ Cardinality(BagToSet(parsed)) >= 3
    /\ Cardinality(BagToSet(acctSent)) >= 2
    /\ \A i \in DecodedWriters : \E t \in TableNames : dwFiles[i][t].batches # <<>>

C5_DecodedConservation ==
    /\ \A p \in Parsers : pStatus[p] = "ok" =>
          \A i \in DOMAIN pDecoders[p] :
              pDecoders[p][i].rows = 0 /\ pDecoders[p][i].builders = <<>>
    /\ mainPc = "done_ok" =>
          \A r \in AllRows, i \in DOMAIN DecoderIds :
              /\ RowsDelivered(DecoderName(DecoderIds[i]), r) = AccountsFor(DecoderIds[i], r)
              /\ RowsInTable(DecoderName(DecoderIds[i]), r) = AccountsFor(DecoderIds[i], r)

C5_Witness ==
    /\ mainPc = "done_ok"
    /\ \E r \in AllRows : RowsDelivered("mints", r) = 1
    /\ \E r \in AllRows : RowsDelivered("token_accounts", r) = 1
    /\ \E it \in BagToSet(decodedSent) : Len(it.rows) < BATCH_THRESHOLD

\* C8: with include_dead = false no header with lamports == 0 is in a batch
\* on the accounts channel or has been appended by an accounts writer.
C8_FilterDefault ==
    ~filters.include_dead =>
        /\ \A k \in DOMAIN accounts : \A j \in DOMAIN accounts[k] :
              accounts[k][j].lamports # 0
        /\ \A w \in Writers : \A k \in DOMAIN wFile[w].batches :
              \A j \in DOMAIN wFile[w].batches[k] : wFile[w].batches[k][j].lamports # 0

C8_Witness ==
    /\ ~filters.include_dead
    /\ mainPc = "done_ok"
    /\ \E h \in AllHeaders : h.lamports = 0
    /\ \E w \in Writers : wFile[w].batches # <<>>

\* C6: filter soundness - when parse_accounts returns, a header H of the
\* buffer is in the returned batch iff filters.matches(H), and the batch
\* holds headers of the buffer only.
C6_FilterSoundness ==
    sPc = "returned" =>
        /\ \A h \in HeadersIn(sBuf) : (h \in Range(sBatch)) <=> FilterMatches(sFilters, h)
        /\ Range(sBatch) \subseteq HeadersIn(sBuf)

C6_Witness ==
    /\ sPc = "returned"
    /\ \E h \in HeadersIn(sBuf) : h \in Range(sBatch)
    /\ \E h \in HeadersIn(sBuf) : h \notin Range(sBatch)

\* C7: matches(header) is true iff (include_dead or lamports != 0) and each
\* of owner, hash, pubkey present in the filter equals the header's field.
C7_Expected(f, h) ==
    /\ (f.include_dead \/ h.lamports # 0)
    /\ (f.owner.some => f.owner.val = h.owner)
    /\ (f.hash.some => f.hash.val = h.hash)
    /\ (f.pubkey.some => f.pubkey.val = h.pubkey)

C7_MatchesSemantics ==
    /\ \A k \in 1..Len(sCalls) :
          sCalls[k].kept <=> C7_Expected(sFilters, sCalls[k].header)
    /\ \A h \in HeadersIn(sBuf) :
          FilterMatches(sFilters, h) <=> C7_Expected(sFilters, h)

C7_Witness ==
    /\ sPc = "returned"
    /\ sFilters.hash.some /\ sFilters.owner.some /\ ~sFilters.pubkey.some
    /\ \E k \in 1..Len(sCalls) :
          sCalls[k].kept /\ sCalls[k].header.hash = sFilters.hash.val
    /\ \E k \in 1..Len(sCalls) :
          /\ ~sCalls[k].kept
          /\ sCalls[k].header.lamports # 0
          /\ sCalls[k].header.owner # sFilters.owner.val

\* C9: for every header parsed, decode is invoked on at most one decoder:
\* the first in registration order among those registered under the
\* header's owner whose matches is true; on none when there is none.
C9_Candidates(h) ==
    {i \in 1..Len(DecoderIds) :
        DecoderOwner(DecoderIds[i]) = h.owner
        /\ DecoderMatches(DecoderIds[i], h.owner, h.data_len)}

C9_DispatchUniqueness ==
    \A k \in 1..Len(sCalls) :
        LET h == sCalls[k].header
            inv == sCalls[k].invoked
            cands == C9_Candidates(h)
        IN /\ Len(inv) <= 1
           /\ cands = {} => inv = <<>>
           /\ cands # {} =>
                inv = <<DecoderIds[CHOOSE i \in cands : \A j \in cands : i <= j]>>

C9_Witness ==
    /\ sPc = "returned"
    /\ \E k \in 1..Len(sCalls) : sCalls[k].invoked = <<TOKEN_ACCOUNT>>
    /\ \E k \in 1..Len(sCalls) :
          sCalls[k].invoked = <<>> /\ sCalls[k].header.owner = TOKEN_PROGRAM

\* C10: the mint decoder matches iff owner == TOKEN_PROGRAM and data_len ==
\* 82, the token-account decoder iff owner == TOKEN_PROGRAM and data_len ==
\* 165, and no (owner, data_len) is accepted by both.
C10_MatchSpecificity ==
    \A k \in 1..Len(sCalls) :
        LET h == sCalls[k].header
        IN /\ DecoderMatches(MINT, h.owner, h.data_len)
                <=> (h.owner = TOKEN_PROGRAM /\ h.data_len = 82)
           /\ DecoderMatches(TOKEN_ACCOUNT, h.owner, h.data_len)
                <=> (h.owner = TOKEN_PROGRAM /\ h.data_len = 165)
           /\ ~(DecoderMatches(MINT, h.owner, h.data_len)
                /\ DecoderMatches(TOKEN_ACCOUNT, h.owner, h.data_len))
           /\ sCalls[k].invoked = <<MINT>>
                <=> (h.owner = TOKEN_PROGRAM /\ h.data_len = 82)
           /\ sCalls[k].invoked = <<TOKEN_ACCOUNT>>
                <=> (h.owner = TOKEN_PROGRAM /\ h.data_len = 165)

C10_Witness ==
    /\ \E k \in 1..Len(sCalls) :
          sCalls[k].header.data_len = 82 /\ sCalls[k].invoked = <<MINT>>
    /\ \E k \in 1..Len(sCalls) :
          sCalls[k].header.data_len = 82 /\ sCalls[k].header.owner # TOKEN_PROGRAM
          /\ sCalls[k].invoked = <<>>

\* C11: decode returns a batch exactly on the call that brings the rows
\* buffered since the last emitted batch to BATCH_THRESHOLD and nothing on
\* every other call; the batch holds the rows buffered since the previous
\* batch, in call order, and the counter is back at 0; rows buffered by
\* fewer calls come out of flush only.
\* the rows of the decode calls before call k that follow the last call
\* before k that returned a batch
RECURSIVE C11_Buffered(_)
C11_Buffered(k) ==
    IF k = 1 THEN <<>>
    ELSE IF cCalls[k - 1].out.some THEN <<>>
         ELSE IF cCalls[k - 1].op = "decode"
              THEN Append(C11_Buffered(k - 1), cCalls[k - 1].row)
              ELSE C11_Buffered(k - 1)

C11_BatchThreshold ==
    \A k \in 1..Len(cCalls) :
        LET c == cCalls[k]
            before == C11_Buffered(k)
        IN IF c.op = "decode"
           THEN /\ c.out.some <=> (Len(before) + 1 = BATCH_THRESHOLD)
                /\ c.out.some => c.out.val = Append(before, c.row) /\ c.rows = 0
                /\ ~c.out.some => c.rows = Len(before) + 1
           ELSE /\ c.out.some <=> (before # <<>>)
                /\ c.out.some => c.out.val = before /\ c.rows = 0
                /\ Len(before) < BATCH_THRESHOLD

C11_Witness ==
    /\ \E k \in 1..Len(cCalls) :
          cCalls[k].op = "decode" /\ cCalls[k].out.some
          /\ Len(cCalls[k].out.val) = BATCH_THRESHOLD
    /\ \E k \in 1..Len(cCalls) :
          cCalls[k].op = "flush" /\ cCalls[k].out.some
          /\ Len(cCalls[k].out.val) < BATCH_THRESHOLD
    /\ \E k \in 1..Len(cCalls) : cCalls[k].op = "decode" /\ ~cCalls[k].out.some

\* C12: round-trip tiling - for a buffer made of (header, data, pad to 8)
\* records, followed by nothing or by a fragment shorter than a header,
\* parse_accounts with a filter that accepts every header returns exactly
\* the headers of the records, in order, and ends at offset = len(buf) or
\* with a remainder smaller than 136 bytes.
\* the offsets of the records of buf, in increasing order
RECURSIVE SortedOffsets(_)
SortedOffsets(offs) ==
    IF offs = {} THEN <<>>
    ELSE LET lo == CHOOSE o \in offs : \A x \in offs : o <= x
         IN <<lo>> \o SortedOffsets(offs \ {lo})

HeaderSeq(buf) ==
    LET offs == SortedOffsets(DOMAIN buf.at)
    IN [k \in 1..Len(offs) |-> buf.at[offs[k]].hdr]

\* the end of the last record of buf
TiledEnd(buf) ==
    LET offs == SortedOffsets(DOMAIN buf.at)
    IN IF offs = <<>> THEN 0
       ELSE Align8(offs[Len(offs)] + HEADER_SIZE + buf.at[offs[Len(offs)]].hdr.data_len)

C12_AcceptsAll(f) == f.include_dead /\ ~f.owner.some /\ ~f.hash.some /\ ~f.pubkey.some

C12_RoundTrip ==
    (C12_AcceptsAll(sFilters) /\ sBuf.len >= TiledEnd(sBuf)) =>
        /\ sPc # "panicked"
        /\ sPc = "returned" =>
              /\ sBatch = HeaderSeq(sBuf)
              /\ sOffset = TiledEnd(sBuf)
              /\ sOffset = sBuf.len
                 \/ (sOffset < sBuf.len /\ sBuf.len - sOffset < HEADER_SIZE)

C12_Witness ==
    /\ sPc = "returned"
    /\ C12_AcceptsAll(sFilters)
    /\ sBuf.len = TiledEnd(sBuf)
    /\ Len(sBatch) = 2
    /\ sBatch[1] # sBatch[2]
    /\ sBatch[2].data_len = 0 /\ sBatch[1].data_len = MINT_SIZE
    /\ sBatch[1].lamports = 0

\* C13: each payload buffer yields at most one accounts batch: exactly one,
\* sent on the accounts channel, when one of its headers matches the
\* filter, none otherwise (no empty batch is sent); the batch holds the
\* matching headers of that buffer only, in their order in the buffer.
C13_Matching(buf) ==
    SelectSeq(HeaderSeq(buf), LAMBDA h : FilterMatches(filters, h))

C13_OneBatchPerBuffer ==
    /\ \A k \in DOMAIN accounts : accounts[k] # <<>>
    /\ \A b \in BagToSet(acctSent) :
          /\ b # <<>>
          /\ \E buf \in BagToSet(parsed) : b = C13_Matching(buf)
    /\ \A buf \in BagToSet(parsed) :
          C13_Matching(buf) # <<>> =>
             CopiesIn(C13_Matching(buf), acctSent) =
                CopiesIn(buf, parsed)
                   - Cardinality({p \in Parsers : pStatus[p] = "parse" /\ pBuf[p] = buf})

C13_Witness ==
    /\ \A p \in Parsers : pStatus[p] = "ok"
    /\ \E buf \in BagToSet(parsed) : HeaderSeq(buf) # <<>> /\ C13_Matching(buf) = <<>>
    /\ \E buf \in BagToSet(parsed) :
          /\ Len(HeaderSeq(buf)) = 3
          /\ Len(C13_Matching(buf)) = 2
          /\ C13_Matching(buf) = <<HeaderSeq(buf)[1], HeaderSeq(buf)[3]>>
          /\ CopiesIn(C13_Matching(buf), acctSent) = 1
    /\ Cardinality(BagToSet(acctSent)) = 2

\* C14: the decoded tables do not depend on the filter: two runs over the
\* same input that differ only in the filter deliver the same multiset of
\* rows for each decoded table; an account the filter rejects (also one
\* with lamports == 0 when include_dead is false) is still passed to its
\* matching decoder.
\* rows equal to r that a run delivers for decoder idx: those of the
\* batches sent and those left in the builders for the final flush
C14_Delivered(emitted, decoders, idx, r) ==
    SumFn([k \in DOMAIN emitted |->
             IF emitted[k].name = DecoderName(idx)
             THEN Occurrences(emitted[k].rows, r) ELSE 0])
       + Occurrences(decoders[idx].builders, r)

C14_FilterIndependence ==
    /\ (sPc = "returned" /\ tPc = "returned") =>
          \A r \in Rows : \A i \in DOMAIN DecoderIds :
              C14_Delivered(sEmitted, sDecoders, DecoderIds[i], r)
                 = C14_Delivered(tEmitted, tDecoders, DecoderIds[i], r)
    /\ \A k \in 1..Len(sCalls) :
          (~sCalls[k].kept /\ C9_Candidates(sCalls[k].header) # {}) =>
              sCalls[k].invoked # <<>>

C14_Witness ==
    /\ sPc = "returned" /\ tPc = "returned"
    /\ sFilters = DefaultFilters /\ tFilters.include_dead
    /\ sBatch # tBatch
    /\ \E k \in 1..Len(sCalls) :
          ~sCalls[k].kept /\ sCalls[k].header.lamports = 0
          /\ sCalls[k].invoked = <<MINT>>
    /\ sEmitted # <<>>

\* C15: a thread whose send on the raw, accounts or decoded channel fails
\* because every receiver is gone returns with success, so that the error
\* main returns is that of the thread that failed on its own, never the
\* channel-closed error of a thread upstream of it.
C15_ChannelClosed ==
    mainPc = "done_err" =>
        /\ \A t \in Threads : thrErr[t] # "closed"
        /\ mainErr = "fatal"

\* C16: when threads end with an error, main returns the first non-success
\* in its join order, and the counters (blocked, starved, rows received)
\* have been reported when it returns.
C16_ErrorPropagation ==
    mainPc = "done_err" =>
        /\ \E k \in DOMAIN JoinOrder :
              /\ ThreadStatus(JoinOrder[k]) = "err"
              /\ \A j \in 1..(k - 1) : ThreadStatus(JoinOrder[j]) = "ok"
              /\ mainErr = thrErr[JoinOrder[k]]
              /\ mainErr # "none"
        /\ reported

\* C17: for an archive without accounts entry the run exits cleanly with
\* rows_received = 0, and no accounts file and no decoded file is written.
C17_NoAccountsEntry ==
    (mainPc = "done_ok" /\ \A k \in DOMAIN archive : ~archive[k].accounts) =>
        /\ AllThreadsOk
        /\ rows_received = 0
        /\ \A w \in Writers : ~wFile[w].created
        /\ \A i \in DecodedWriters : \A t \in TableNames : ~dwFiles[i][t].created

\* C18: the tar reader stops exactly at the first 512-byte header block
\* whose bytes are all zero, or at the end of the stream: a header block
\* with a non-zero byte is processed as an entry whatever its first byte.
C18_StopsAtZeroBlock ==
    rStatus = "ok" =>
        LET last == rLog[Len(rLog)]
        IN \/ last.pos + TAR_BLOCK > rStream.len
           \/ \A i \in 0..(TAR_BLOCK - 1) : ByteAt(rStream, last.pos + i) = 0

\* C19: an entry of the archive produces a buffer on the raw channel iff
\* its type flag is '0' or NUL and bytes 0..100 of its header contain
\* accounts/; every other entry produces no send and exactly padded bytes
\* are skipped; the buffers are sent one per matching entry, in archive
\* order.
C19_EntryClassification ==
    rStatus = "ok" =>
        /\ rSent = MatchingData(rStream, 1)
        /\ \A k \in HdrSegs(rStream) :
              (EntryComplete(rStream, k) /\ ~EntryMatches(rStream.segs[k])) =>
                 \E n \in DOMAIN rLog :
                    /\ rLog[n].pos = SegPos(rStream, k)
                    /\ rLog[n].outcome = "skipped"
                    /\ PosAfter(n) - (rLog[n].pos + TAR_BLOCK)
                          = Padded(rStream.segs[k].size)

\* C20: for every entry, matching or not, the reader consumes exactly
\* 512 + ceil(size/512)*512 bytes, so every header block is read at an
\* offset that is a multiple of 512; the buffer sent for a matching entry
\* has length size and holds the first size data bytes of the entry.
C20_TarFraming ==
    /\ \A n \in DOMAIN rLog : rLog[n].pos % TAR_BLOCK = 0
    /\ rStatus = "ok" =>
          \A k \in HdrSegs(rStream) :
              EntryComplete(rStream, k) =>
                 \E n \in DOMAIN rLog :
                    /\ rLog[n].pos = SegPos(rStream, k)
                    /\ rLog[n].outcome \in {"sent", "skipped"}
                    /\ PosAfter(n) - rLog[n].pos = TAR_BLOCK
                          + ((rStream.segs[k].size + TAR_BLOCK - 1) \div TAR_BLOCK) * TAR_BLOCK
                    /\ rLog[n].outcome = "sent" =>
                          /\ Len(rSent[SentUpTo(n)]) = rStream.segs[k].size
                          /\ rSent[SentUpTo(n)] = EntryData(rStream.segs[k])

\* what holds of the classification and of the framing: the statements of
\* C19 and C20 on the streams none of whose header blocks starts with NUL
NoNulName == \A k \in HdrSegs(rStream) : rStream.segs[k].name[1] # 0
Classification_NoNulName == NoNulName => C19_EntryClassification
Framing_NoNulName == NoNulName => C20_TarFraming

\* ---- C21
\* a byte as 8 bits and an octal digit as 3 bits, most significant first
Bits(n, width) == [i \in 1..width |-> (n \div (2 ^ (width - i))) % 2]

RECURSIVE FlatBits(_, _)
FlatBits(digits, width) ==
    IF digits = <<>> THEN <<>>
    ELSE Bits(Head(digits), width) \o FlatBits(Tail(digits), width)

\* a number written most significant digit first, without its leading zeros
RECURSIVE StripZeros(_)
StripZeros(digits) ==
    IF digits # <<>> /\ Head(digits) = 0 THEN StripZeros(Tail(digits)) ELSE digits

\* the bytes of a field that precede its first NUL or space
RECURSIVE OctalPrefix(_)
OctalPrefix(bytes) ==
    IF bytes = <<>> \/ Head(bytes) = 0 \/ Head(bytes) = 32 THEN <<>>
    ELSE <<Head(bytes)>> \o OctalPrefix(Tail(bytes))

IsOctalDigits(bytes) == \A i \in DOMAIN bytes : bytes[i] \in 48..55

\* the result is the number the octal digits before the terminator denote
OctalFormRight ==
    /\ ~callRet[1].panics
    /\ StripZeros(FlatBits(callRet[1].value, 8))
          = StripZeros(FlatBits([i \in DOMAIN OctalPrefix(callArg) |->
                                    OctalPrefix(callArg)[i] - 48], 3))

\* the result is the number the 11 bytes after the first denote
BinaryFormRight ==
    /\ ~callRet[1].panics
    /\ StripZeros(callRet[1].value) = StripZeros(Tail(callArg))

\* C21: parse_octal on a 12-byte size field: with the high bit of the first
\* byte clear the result is the value of the octal digits that precede the
\* first NUL or space; with it set the result is the remaining 11 bytes
\* read as a big-endian binary number.
C21_ParseOctal ==
    callRet # <<>> =>
        IF callArg[1] < 128
        THEN IsOctalDigits(OctalPrefix(callArg)) => OctalFormRight
        ELSE BinaryFormRight

\* what holds of parse_octal: the statement of C21 on the binary fields
\* whose number fits 64 bits
FitsU64 == callArg[1] >= 128 => \A i \in 2..4 : callArg[i] = 0
ParseOctal_FitsU64 == FitsU64 => C21_ParseOctal

\* the two examples: "00000000144\0" gives 100 and 0x80 .. 01 00 00 gives 0x10000
ParseOctal_Examples ==
    /\ (callArg = SizeField(100) /\ callRet # <<>>)
          => callRet[1] = [panics |-> FALSE, value |-> <<0, 0, 0, 0, 0, 0, 0, 100>>]
    /\ (callArg = <<128, 0, 0, 0, 0, 0, 0, 0, 0, 1, 0, 0>> /\ callRet # <<>>)
          => callRet[1] = [panics |-> FALSE, value |-> <<0, 0, 0, 0, 0, 1, 0, 0>>]

\* ---- C22, C23
\* the stream has no end-of-archive blocks: it is its entries and nothing else
NoEndBlocks(stream) == Len(stream.segs) = 3 * Cardinality(HdrSegs(stream))

\* the stream ends after the padded data of its last entry
EndsAtBoundary(stream) == NoEndBlocks(stream) /\ stream.len = SegsLen(stream.segs)

\* the header segments of the entries the stream ends inside of
TruncatedEntries(stream) ==
    {k \in HdrSegs(stream) : SegPos(stream, k) < stream.len /\ ~EntryComplete(stream, k)}

\* C22: when the stream ends exactly at an entry boundary the decompressor
\* returns success, and every matching entry before the end has been sent
\* on the raw channel.
C22_CleanEnd ==
    (EndsAtBoundary(rStream) /\ rStatus # "running") =>
        /\ rStatus = "ok"
        /\ rSent = MatchingData(rStream, 1)

\* what holds of the clean end: the statement of C22 on the streams none of
\* whose header blocks starts with NUL
CleanEnd_NoNulName == NoNulName => C22_CleanEnd

\* C23: when the stream ends inside an entry (its header, its data or its
\* padding) the decompressor returns an error, and no buffer is sent on the
\* raw channel for the truncated entry.
C23_TruncatedFatal ==
    (TruncatedEntries(rStream) # {} /\ rStatus # "running") =>
        /\ rStatus = "err"
        /\ \A k \in TruncatedEntries(rStream), n \in DOMAIN rLog :
              rLog[n].pos = SegPos(rStream, k) => rLog[n].outcome # "sent"
        /\ Len(rSent) <= Len(MatchingData(rStream, 1))

\* what holds of the truncated entry: the statement of C23 on the streams
\* that hold the whole header block of the entry they end inside of and
\* none of whose header blocks starts with NUL
HeaderWhole ==
    \A k \in TruncatedEntries(rStream) : SegPos(rStream, k) + TAR_BLOCK <= rStream.len
Truncated_HeaderWhole == (NoNulName /\ HeaderWhole) => C23_TruncatedFatal

\* ---- C24
\* C24: in the accounts table the executable column of a row is true iff
\* the executable byte of its header is non-zero (1..255 true, 0 false).
C24_Executable ==
    callRet # <<>> =>
        \A i \in DOMAIN callArg :
            callRet[1][i].executable = (callArg[i].executable # 0)

\* what holds of the column: it is true iff the byte is 1
Executable_IsOne ==
    callRet # <<>> =>
        /\ Len(callRet[1]) = Len(callArg)
        /\ \A i \in DOMAIN callArg :
              callRet[1][i].executable = (callArg[i].executable = 1)

\* ---- C25
\* the optional fields of a record: the column, the offset of the COption
\* in the data and the length of its payload
OptionalFields(table) ==
    IF table = "mints"
    THEN {[col |-> "mint_authority", at |-> 0, len |-> 32],
          [col |-> "freeze_authority", at |-> 46, len |-> 32]}
    ELSE {[col |-> "delegate", at |-> 72, len |-> 32],
          [col |-> "is_native", at |-> 109, len |-> 8],
          [col |-> "close_authority", at |-> 129, len |-> 32]}

TagAt(data, f) == SubSeq(data, f.at + 1, f.at + 4)
PayloadAt(data, f) == SubSeq(data, f.at + 5, f.at + 4 + f.len)

\* the bytes a column value is written as: a key as it is, the u64 of
\* is_native least significant byte first
ColumnBytes(f, v) == IF f.col = "is_native" THEN FromLE(v) ELSE v

\* C25: for every optional field of a mint or token-account record a tag
\* of 0 gives a null column value and a tag of 1 gives exactly the payload
\* bytes that follow the tag; the payload is never emitted under a tag of 0.
C25_COption ==
    callRet # <<>> =>
        \A f \in OptionalFields(callArg.table) :
            LET v == callRet[1][f.col]
            IN /\ TagAt(callArg.data, f) = <<0, 0, 0, 0>> => ~v.some
               /\ TagAt(callArg.data, f) = <<1, 0, 0, 0>> =>
                     /\ v.some
                     /\ ColumnBytes(f, v.val) = PayloadAt(callArg.data, f)

C25_Witness ==
    /\ callRet # <<>>
    /\ callArg.table = "token_accounts"
    /\ TagAt(callArg.data, [at |-> 72]) = <<0, 0, 0, 0>>
    /\ TagAt(callArg.data, [at |-> 109]) = <<1, 0, 0, 0>>
    /\ TagAt(callArg.data, [at |-> 129]) = <<1, 0, 0, 0>>
    /\ ~callRet[1].delegate.some
    /\ callRet[1].is_native = Some(<<0, 0, 0, 0, 0, 0, 1, 9>>)
    /\ callRet[1].close_authority = Some(KeyBytes(60))

\* ---- C26
\* the files of decoded writer i at any time: created at most once, and
\* only for a table of which the writer received a batch; closed at most
\* once, and every file created is closed when the writer has returned
C26_Files ==
    \A i \in DecodedWriters, t \in TableNames :
        LET f == dwFiles[i][t]
        IN /\ f.opens <= 1 /\ f.closes <= 1
           /\ f.created <=> f.opens = 1
           /\ f.created <=> f.batches # <<>>
           /\ f.closed <=> f.closes = 1
           /\ f.closed => f.created /\ dwStatus[i] = "ok"
           /\ dwStatus[i] = "ok" => (f.created <=> f.closed)

\* a step of decoded writer i: a batch tagged t it receives is appended to
\* the file t_i, which is created by that step iff it is the first, and the
\* other file is left as it was
C26_Receive ==
    \A i \in DecodedWriters :
        (dwFiles'[i] # dwFiles[i] /\ decoded' # decoded) =>
            LET t == Head(decoded).name
            IN /\ dwFiles'[i][t].batches = Append(dwFiles[i][t].batches, Head(decoded).rows)
               /\ dwFiles'[i][t].opens = 1
               /\ dwFiles'[i][t].opens # dwFiles[i][t].opens <=> dwFiles[i][t].batches = <<>>
               /\ \A u \in TableNames \ {t} : dwFiles'[i][u] = dwFiles[i][u]

\* C26: decoded writer i creates the file <table>_<i> exactly once, on the
\* first batch of that table it receives, and appends every later batch of
\* the table to the same writer; it creates no file for a table of which it
\* received no batch; when the decoded channel closes it finalizes every
\* writer it opened, each exactly once.
C26_LazyFiles == []C26_Files /\ [][C26_Receive]_vars

C26_Witness ==
    /\ mainPc = "done_ok"
    /\ \E i \in DecodedWriters :
          /\ Len(dwFiles[i]["mints"].batches) >= 2
          /\ dwFiles[i]["mints"].opens = 1
          /\ dwFiles[i]["mints"].closes = 1
          /\ ~dwFiles[i]["token_accounts"].created

\* ---- C27
\* ch2 is ch, or ch less its first item, or ch and one more item at its end
ChannelStep(ch, ch2, cap) ==
    \/ ch2 = ch
    \/ ch # <<>> /\ ch2 = Tail(ch)
    \/ Len(ch) < cap /\ Len(ch2) = Len(ch) + 1 /\ SubSeq(ch2, 1, Len(ch)) = ch

\* the decompressor stands at the send of a buffer
AtRawSend == dStatus = "running" /\ dIdx <= Len(archive) /\ archive[dIdx].accounts

\* parser p stands at the send of its batch of headers
AtAcctSend(p) ==
    pStatus[p] = "parse" /\ ~LoopCond(pBuf[p], pOffset[p]) /\ SendsBatch(pBatch[p])

\* parser p stands at the send of a decoded batch, in parse_accounts or in
\* the flush loop
AtDecodedSend(p) ==
    \/ /\ pStatus[p] = "parse"
       /\ LoopCond(pBuf[p], pOffset[p])
       /\ ParseIter(pBuf[p], pOffset[p], filters, pDecoders[p]).emitted # <<>>
    \/ /\ pStatus[p] = "flush"
       /\ flush(pDecoders[p][DecoderIds[pFlushIdx[p]]]).out.some

C27_Bounded ==
    /\ Len(raw) <= RawCap
    /\ Len(accounts) <= AcctCap
    /\ Len(decoded) <= DecodedCap

C27_Blocking ==
    /\ ChannelStep(raw, raw', RawCap)
    /\ ChannelStep(accounts, accounts', AcctCap)
    /\ ChannelStep(decoded, decoded', DecodedCap)
    /\ (AtRawSend /\ Len(raw) = RawCap) => (dIdx' = dIdx /\ dStatus' = dStatus)
    /\ \A p \in Parsers :
          /\ (AtAcctSend(p) /\ Len(accounts) = AcctCap) =>
                (pStatus'[p] = pStatus[p] /\ pBatch'[p] = pBatch[p])
          /\ (AtDecodedSend(p) /\ Len(decoded) = DecodedCap) =>
                (pStatus'[p] = pStatus[p] /\ pOffset'[p] = pOffset[p]
                    /\ pDecoders'[p] = pDecoders[p] /\ pFlushIdx'[p] = pFlushIdx[p])

\* C27: every channel holds at most its capacity (128 buffers on raw, 128
\* batches on accounts, 256 on decoded; the capacities explored are RawCap,
\* AcctCap and DecodedCap); a producer whose channel is full does not go
\* past its send until a consumer has removed an item, and no item is
\* dropped or overwritten to make room.
C27_Backpressure == []C27_Bounded /\ [][C27_Blocking]_vars

\* two producers held at their sends by full channels
C27_Witness ==
    /\ \E p \in Parsers : AtDecodedSend(p) /\ Len(decoded) = DecodedCap
    /\ \E p \in Parsers : AtAcctSend(p) /\ Len(accounts) = AcctCap

\* ---- C28
\* C28: in parse_accounts the offset is a multiple of 8 after each
\* (header, data) pair has been consumed and padded, so every header is
\* read at an offset that is a multiple of 8.
C28_Alignment == sOffset % 8 = 0

\* two records read, the data of the first of a length that is no multiple
\* of 8
C28_Witness ==
    /\ sPc = "returned"
    /\ Len(sCalls) >= 2
    /\ sCalls[1].header.data_len % 8 # 0
    /\ sOffset > 2 * HEADER_SIZE

\* ---- C29
\* an iteration of the loop moves the offset forward by a header at least
C29_Progress ==
    Len(sCalls') > Len(sCalls) => sOffset' >= sOffset + HEADER_SIZE

\* the headers read fit the buffer one after the other; the loop is left
\* with less than a header ahead, without error, whatever that remainder
C29_Bounded ==
    /\ Len(sCalls) * HEADER_SIZE <= sBuf.len
    /\ Len(sCalls) * HEADER_SIZE <= sOffset
    /\ sPc = "returned" => sBuf.len - sOffset < HEADER_SIZE
    /\ (sPc = "loop" /\ sBuf.len - sOffset < HEADER_SIZE) => ~ENABLED SParseIter

\* C29: parse_accounts terminates on every buffer: the offset grows by at
\* least 136 at each iteration, the loop runs at most len(buf)/136 times,
\* and a trailing remainder smaller than 136 bytes yields no header and no
\* error.
C29_Terminates == []C29_Bounded /\ [][C29_Progress]_vars

\* a buffer of two records and 8 more bytes, parsed to the end
C29_Witness ==
    /\ sPc = "returned"
    /\ Len(sCalls) = 2
    /\ sBuf.len - sOffset = 8

\* ---- C30
\* the joins of JoinOrder that have returned to main
JoinsReturned ==
    IF mainPc = "join_parsers" THEN joinIdx
    ELSE IF mainPc = "join_writers" THEN NumParsers + joinIdx
    ELSE IF mainPc = "join_decoded_writers" THEN NumParsers + NUM_WRITERS + joinIdx
    ELSE IF mainPc \in {"finish", "done_ok"} THEN Len(JoinOrder)
    ELSE 0

\* the handles main has joined are those of the threads before the others
\* in the dependency order, and their threads have returned
C30_Joined ==
    /\ \A k \in 1..JoinsReturned : ThreadStatus(JoinOrder[k]) = "ok"
    /\ reported => JoinsReturned = Len(JoinOrder)

\* main joins one handle at a time, the next of the dependency order, and
\* reads the counters with every join behind it
C30_Step ==
    /\ JoinsReturned' # JoinsReturned =>
          /\ JoinsReturned' = JoinsReturned + 1
          /\ ThreadStatus(JoinOrder[JoinsReturned + 1]) = "ok"
    /\ reported' # reported => JoinsReturned = Len(JoinOrder)

\* C30: main joins in dependency order: the decompressor before any
\* parser, every parser before any accounts writer, the accounts writers
\* before the decoded writers; the final counters are read only after
\* every join has returned.
C30_JoinOrder == []C30_Joined /\ [][C30_Step]_vars

C30_Witness ==
    /\ reported
    /\ JoinsReturned = Len(JoinOrder)
    /\ rows_received > 0

\* ---- C31
\* C31: parse_accounts never reads outside its buffer and returns normally
\* for every byte buffer: a last complete header whose data_len is larger
\* than the bytes that remain after it does not abort the parser thread.
C31_NeverAborts == sPc # "panicked"

\* what holds: the slice is bounds-checked, so nothing is read outside the
\* buffer, and the only abort is that of a record whose data overruns it
Aborts_OnlyOnOverrun ==
    /\ sPc = "panicked" =>
          /\ LoopCond(sBuf, sOffset)
          /\ sOffset + HEADER_SIZE + sBuf.at[sOffset].hdr.data_len > sBuf.len
    /\ sBuf.len >= TiledEnd(sBuf) => sPc # "panicked"
    /\ \A k \in 1..Len(sCalls) : sCalls[k].header.data_len <= sBuf.len

\* ---- C32
\* the length of the slice `&buf[offset..offset + data_len]` handed to
\* decode for the k-th header read
C32_SliceLen(k) == sCalls[k].header.data_len

\* C32: decode is only ever invoked with a data slice whose length is the
\* record size of the decoder invoked (82 bytes for the mint decoder, 165
\* for the token-account decoder), so the view of the slice as the
\* fixed-layout record never fails.
C32_DecodeSize ==
    \A k \in 1..Len(sCalls) :
        \A j \in 1..Len(sCalls[k].invoked) :
            /\ from_bytes_ok(C32_SliceLen(k), sCalls[k].invoked[j])
            /\ sCalls[k].invoked[j] = MINT => C32_SliceLen(k) = 82
            /\ sCalls[k].invoked[j] = TOKEN_ACCOUNT => C32_SliceLen(k) = 165

\* a mint and a token account decoded in one call of parse_accounts
C32_Witness ==
    /\ sPc = "returned"
    /\ \E k \in 1..Len(sCalls) : sCalls[k].invoked = <<MINT>>
    /\ \E k \in 1..Len(sCalls) : sCalls[k].invoked = <<TOKEN_ACCOUNT>>

\* ---- C33
\* the position of table t in the flush loop
C33_FlushPos(t) == CHOOSE k \in 1..Len(DecoderIds) : DecoderName(DecoderIds[k]) = t

\* the parsers whose flush loop is past the decoder of table t
C33_FlushedPast(t) ==
    {p \in Parsers :
        pStatus[p] = "ok" \/ (pStatus[p] = "flush" /\ pFlushIdx[p] > C33_FlushPos(t))}

\* the number of batches of table t sent with fewer than BATCH_THRESHOLD rows
C33_ShortSent(t) ==
    LET short == {it \in BagToSet(decodedSent) :
                     it.name = t /\ Len(it.rows) < BATCH_THRESHOLD}
    IN BagCardinality([it \in short |-> CopiesIn(it, decodedSent)])

C33_Sizes ==
    /\ \A p \in Parsers : \A i \in DOMAIN pDecoders[p] :
          /\ pDecoders[p][i].rows \in 0..(BATCH_THRESHOLD - 1)
          /\ pDecoders[p][i].rows = Len(pDecoders[p][i].builders)
    /\ \A k \in DOMAIN decoded : Len(decoded[k].rows) \in 1..BATCH_THRESHOLD
    /\ \A it \in BagToSet(decodedSent) : Len(it.rows) \in 1..BATCH_THRESHOLD
    /\ \A t \in TableNames : C33_ShortSent(t) <= Cardinality(C33_FlushedPast(t))

\* a send on the decoded channel is that of a full batch by a parser inside
\* parse_accounts, or that of a shorter one by a parser in its flush loop,
\* for the decoder the loop is at, which it then leaves behind
C33_Send ==
    decodedSent' # decodedSent =>
        \E p \in Parsers : \E it \in BagToSet(decodedSent' (-) decodedSent) :
            /\ pDecoders'[p] # pDecoders[p]
            /\ decodedSent' = decodedSent (+) SetToBag({it})
            /\ \/ /\ pStatus[p] = "parse"
                  /\ Len(it.rows) = BATCH_THRESHOLD
               \/ /\ pStatus[p] = "flush"
                  /\ it.name = DecoderName(DecoderIds[pFlushIdx[p]])
                  /\ Len(it.rows) \in 1..(BATCH_THRESHOLD - 1)
                  /\ pFlushIdx'[p] > pFlushIdx[p]

\* C33: between calls each decoder buffers between 0 and BATCH_THRESHOLD - 1
\* rows; every batch on the decoded channel has exactly BATCH_THRESHOLD
\* rows, except the final flush batches, at most one per parser per table,
\* of 1 to BATCH_THRESHOLD - 1 rows each; no empty batch is ever sent.
C33_BatchSizes == []C33_Sizes /\ [][C33_Send]_vars

\* a full batch and a flush batch of the same table have been sent, and
\* every parser has left its flush loop
C33_Witness ==
    /\ \A p \in Parsers : pStatus[p] = "ok"
    /\ \E it \in BagToSet(decodedSent) :
          it.name = "mints" /\ Len(it.rows) = BATCH_THRESHOLD
    /\ C33_ShortSent("mints") >= 1
    /\ C33_ShortSent("token_accounts") = 1

\* ---- C34
\* every decoded writer has terminated and main has dropped its decoded_rx
C34_DecodedPathDown ==
    /\ \A i \in DecodedWriters : dwStatus[i] \in {"ok", "err"}
    /\ ~MainHoldsDecodedRx

\* the accounts path has run to its end: decompressor, parsers and accounts
\* writers have returned
C34_AccountsPathDone ==
    /\ dStatus \in {"ok", "err"}
    /\ \A p \in Parsers : pStatus[p] \in {"ok", "err"}
    /\ \A w \in Writers : wStatus[w] \in {"ok", "err"}

\* no thread of the accounts path ends with an error, a step of it can be
\* taken until its threads have returned, and the accounts files then hold
\* what C4 states of an error-free run
C34_AccountsPath ==
    /\ dStatus # "err"
    /\ \A p \in Parsers : pStatus[p] # "err"
    /\ \A w \in Writers : wStatus[w] # "err"
    /\ (C34_DecodedPathDown /\ ~C34_AccountsPathDone) =>
          ENABLED (DecompressStep \/ (\E p \in Parsers : ParserStep(p))
                      \/ (\E w \in Writers : AcctWriterStep(w)))
    /\ C34_AccountsPathDone =>
          /\ \A h \in AllHeaders :
                RowsWritten(h) = IF FilterMatches(filters, h) THEN HeadersInArchive(h) ELSE 0
          /\ rows_received =
                Cardinality({ko \in ArchiveRecs : FilterMatches(filters, RecAt(ko).hdr)})
          /\ \A b \in BagToSet(parsed) : CopiesIn(b, parsed) = RawInArchive(b)

\* with the decoded path down nothing enters the decoded channel any more
C34_Discarded ==
    C34_DecodedPathDown => decoded' = decoded /\ decodedSent' = decodedSent

\* C34: a failure of the decoded path does not stop the accounts path: when
\* every decoded writer has terminated, the failed sends of a parser on the
\* decoded channel are discarded, the parser keeps parsing the remaining
\* payload buffers, and every filter-matching header is still delivered to
\* the accounts writers as in a run without that failure.
C34_AccountsPathSurvives ==
    /\ <>C34_AccountsPathDone
    /\ []C34_AccountsPath
    /\ [][C34_Discarded]_vars

\* the rows of the batches that went through on the decoded channel
C34_RowsSent ==
    SumFn([it \in BagToSet(decodedSent) |-> Len(it.rows) * CopiesIn(it, decodedSent)])

\* both decoded writers failed while the parsers were at work: rows decoded
\* after that never entered the channel, the parsers returned Ok(()) with
\* their decoders flushed, and the four matching headers were written
C34_Witness ==
    /\ \A i \in DecodedWriters : dwStatus[i] = "err"
    /\ \A p \in Parsers : pStatus[p] = "ok"
    /\ \A w \in Writers : wStatus[w] = "ok" /\ wFile[w].closed
    /\ rows_received = 4
    /\ C34_RowsSent < SumFn([r \in AllRows |-> AccountsFor(MINT, r) + AccountsFor(TOKEN_ACCOUNT, r)])
    /\ mainPc = "done_err"

====
